---- MODULE Spec2Model ----
(***************************************************************************)
(* GCL: the tokenizer (src/src/tokenizer.cc, tokenizer.hh), the recursive  *)
(* descent parser (src/src/parser.cc), the document Value                  *)
(* (src/include/gcl/value.hh) and the diagnostic (exception.hh).           *)
(*                                                                         *)
(* Characters are their ASCII codes, a text is a sequence of codes.  The   *)
(* C++ buffer index is 0-based: m_chars[i] of the code is m_chars[i + 1]   *)
(* here.  A machine word (uintptr_t / intptr_t, 64 bits) is a little-endian*)
(* sequence of NumLimbs limbs, each below LimbBase.                        *)
(***************************************************************************)
EXTENDS Integers, Sequences, FiniteSets, TLC

\* ------------------------------------------------------------------ words

\* uintptr_t is 4 limbs of 16 bits.
NumLimbs == 4
LimbBase == 65536

WordZero == [k \in 1..NumLimbs |-> 0]

\* w * m + a for a word w and naturals m, a below LimbBase, modulo 2^64.
RECURSIVE WordMulAddFrom(_, _, _, _)
WordMulAddFrom(w, m, carry, k) ==
    IF k > NumLimbs THEN <<>>
    ELSE LET x == w[k] * m + carry
         IN  <<x % LimbBase>> \o WordMulAddFrom(w, m, x \div LimbBase, k + 1)

\* What w * m + a carries out of the word.
RECURSIVE WordCarryFrom(_, _, _, _)
WordCarryFrom(w, m, carry, k) ==
    IF k > NumLimbs THEN carry
    ELSE WordCarryFrom(w, m, (w[k] * m + carry) \div LimbBase, k + 1)

\* w * m + a that stays at the largest word instead of wrapping.
WordMulAddSaturating(w, m, a) ==
    IF WordCarryFrom(w, m, a, 1) > 0 THEN [k \in 1..NumLimbs |-> LimbBase - 1]
    ELSE WordMulAddFrom(w, m, a, 1)

WordMulAdd(w, m, a) == WordMulAddFrom(w, m, a, 1)

\* Unary minus of an unsigned word: 2^64 - w modulo 2^64.
WordNeg(w) ==
    WordMulAdd([k \in 1..NumLimbs |-> LimbBase - 1 - w[k]], 1, 1)

\* Conversion of an int to uintptr_t (sign extension).
WordFromInt(n) ==
    IF n >= 0 THEN WordMulAdd(WordZero, 1, n)
    ELSE WordNeg(WordMulAdd(WordZero, 1, 0 - n))

\* a + b modulo 2^64.
RECURSIVE WordAddFrom(_, _, _, _)
WordAddFrom(a, b, carry, k) ==
    IF k > NumLimbs THEN <<>>
    ELSE LET x == a[k] + b[k] + carry
         IN  <<x % LimbBase>> \o WordAddFrom(a, b, x \div LimbBase, k + 1)

WordAdd(a, b) == WordAddFrom(a, b, 0, 1)

\* The word read as intptr_t is negative when its top bit is set.
WordIsNegative(w) == w[NumLimbs] >= LimbBase \div 2

\* Quotient and remainder of an unsigned word by a small divisor.
RECURSIVE WordDivFrom(_, _, _, _)
WordDivFrom(w, d, rem, k) ==
    IF k < 1 THEN [q |-> <<>>, r |-> rem]
    ELSE LET x    == rem * LimbBase + w[k]
             rest == WordDivFrom(w, d, x % d, k - 1)
         IN  [q |-> rest.q \o <<x \div d>>, r |-> rest.r]

WordDiv(w, d) == WordDivFrom(w, d, 0, NumLimbs)

\* ------------------------------------------------------------- characters

Ascii == [nul |-> 0, tab |-> 9, nl |-> 10, space |-> 32, quote |-> 34,
          hash |-> 35, plus |-> 43, comma |-> 44, minus |-> 45,
          zero |-> 48, one |-> 49, nine |-> 57, colon |-> 58,
          at |-> 64,
          A |-> 65, B |-> 66, F |-> 70, X |-> 88, Z |-> 90,
          lsqb |-> 91, backslash |-> 92, rsqb |-> 93, underscore |-> 95,
          a |-> 97, b |-> 98, f |-> 102, n |-> 110, t |-> 116, x |-> 120,
          z |-> 122, lbrace |-> 123, rbrace |-> 125]

isAlpha(chr) ==
    (chr >= Ascii.a /\ chr <= Ascii.z) \/ (chr >= Ascii.A /\ chr <= Ascii.Z)

isDigit(chr, base) ==
    CASE base = 10 -> chr >= Ascii.zero /\ chr <= Ascii.nine
      [] base = 16 -> \/ (chr >= Ascii.zero /\ chr <= Ascii.nine)
                      \/ (chr >= Ascii.A /\ chr <= Ascii.F)
                      \/ (chr >= Ascii.a /\ chr <= Ascii.f)
      [] base = 2  -> chr >= Ascii.zero /\ chr <= Ascii.one
      [] OTHER     -> FALSE

isAlnum(chr) == isAlpha(chr) \/ isDigit(chr, 10)

\* charToDigit with the hex letters counted from 0 instead of 10.
charToDigitLettersFromZero(chr, base) ==
    IF base <= 10 THEN chr - Ascii.zero
    ELSE IF base = 16
         THEN IF chr <= Ascii.nine THEN chr - Ascii.zero
              ELSE IF chr <= Ascii.F THEN chr - Ascii.A
              ELSE IF chr <= Ascii.f THEN chr - Ascii.a
              ELSE 0
         ELSE 0

charToDigit(chr, base) ==
    IF base <= 10 THEN chr - Ascii.zero
    ELSE IF base = 16
         THEN IF chr <= Ascii.nine THEN chr - Ascii.zero
              ELSE IF chr <= Ascii.F THEN chr - Ascii.A + 10
              ELSE IF chr <= Ascii.f THEN chr - Ascii.a + 10
              ELSE 0
         ELSE 0

\* ------------------------------------------------------------- formatting

\* std::format of an unsigned magnitude in decimal.
RECURSIVE FormatMagnitude(_)
FormatMagnitude(w) ==
    LET d == WordDiv(w, 10)
    IN  IF d.q = WordZero THEN <<Ascii.zero + d.r>>
        ELSE FormatMagnitude(d.q) \o <<Ascii.zero + d.r>>

\* std::formatter<intptr_t>: the word read as a signed integer.
FormatInt(w) ==
    IF WordIsNegative(w) THEN <<Ascii.minus>> \o FormatMagnitude(WordNeg(w))
    ELSE FormatMagnitude(w)

FormatTokenKind(kind) ==
    CASE kind = "Eof"          -> <<101, 111, 102>>
      [] kind = "Int"          -> <<105, 110, 116>>
      [] kind = "Float"        -> <<102, 108, 111, 97, 116>>
      [] kind = "Identifier"   -> <<105, 100, 101, 110, 116, 105, 102, 105, 101, 114>>
      [] kind = "String"       -> <<115, 116, 114, 105, 110, 103>>
      [] kind = "Punctuaction" -> <<112, 117, 110, 99, 116, 117, 97, 99, 116, 105, 111, 110>>

FormatPunctuaction(p) ==
    CASE p = "Lbrace" -> <<Ascii.lbrace>>
      [] p = "Rbrace" -> <<Ascii.rbrace>>
      [] p = "Lsqb"   -> <<Ascii.lsqb>>
      [] p = "Rsqb"   -> <<Ascii.rsqb>>
      [] p = "Comma"  -> <<Ascii.comma>>
      [] p = "Colon"  -> <<Ascii.colon>>

FormatToken(token) ==
    CASE token.kind = "Int"          -> FormatInt(token.i)
      [] token.kind = "Float"        -> FormatInt(WordFromInt(token.f))
      [] token.kind = "Identifier"   -> token.identifier
      [] token.kind = "String"       -> token.string
      [] token.kind = "Punctuaction" -> FormatPunctuaction(token.punctuaction)
      [] OTHER                       -> FormatTokenKind(token.kind)

\* --------------------------------------------------------------- the span

\* Span{}: all four numbers zero.
SpanZero == [beginLineNumber |-> 0, beginColumnNumber |-> 0,
             endLineNumber |-> 0, endColumnNumber |-> 0]

\* ------------------------------------------------------------ diagnostics

GclErrorID == {"ExpectedIdentifier", "ExpectedNumber", "ExpectedPunctuaction",
               "ExpectedStringEnd", "ExpectedValue", "KeyAlreadyDefined",
               "InvalidDigit", "InvalidEscape", "UnknownChar"}

\* No exception in flight.
NoThrow == [thrown |-> FALSE, errorID |-> "", span |-> SpanZero,
            info |-> [fmt |-> "", args |-> <<>>]]

\* The arguments of a `throw GclException(errorID, span, std::format(fmt, args...))`.
\* A format string is kept as written in the source, with ' for its backquotes;
\* args are the rendered arguments, in order.
Throw(errorID, span, fmt, args) ==
    [thrown |-> TRUE, errorID |-> errorID, span |-> span,
     info |-> [fmt |-> fmt, args |-> args]]

\* ------------------------------------------------------------- the token

\* enum class TokenKind.
TokenKind == {"Eof", "Int", "Float", "Identifier", "String", "Punctuaction"}

\* Token(): kind Eof, data.i zero.  The payload is a union: the members
\* that are not live are kept at these defaults.
TokenEof == [kind |-> "Eof", i |-> WordZero, f |-> 0, identifier |-> <<>>,
             string |-> <<>>, punctuaction |-> "Lbrace", span |-> SpanZero]

\* Token::reset.
TokenReset(token) == TokenEof

\* --------------------------------------------------------- the tokenizer

\* Tokenizer(): no buffer, cursor at 0, line 1, column 0.  Three fields are
\* not the program's: reads is the set of the buffer positions read so far,
\* tokenIndex the value of m_index when the current token was begun, calls
\* the number of calls of advance since the text was bound or the tokenizer
\* reset.
TokenizerNew == [m_chars |-> <<>>, m_length |-> 0, m_index |-> 0,
                 m_lineNumber |-> 1, m_columNumber |-> 0,
                 m_char |-> Ascii.nul, m_token |-> TokenEof,
                 reads |-> {}, tokenIndex |-> 0, calls |-> 0]

\* m_chars[index].  The buffer may be longer than the length bound to the
\* tokenizer; a position that does not belong to the buffer holds whatever
\* the memory holds, the zero byte that ends a C string stands for it.
charAt(chars, index) ==
    IF index + 1 \in DOMAIN chars THEN chars[index + 1] ELSE Ascii.nul

\* setText that reads m_chars[0] whatever the length.
setTextReadsFirst(t, chars, length) ==
    [t EXCEPT !.m_chars = chars, !.m_length = length, !.m_index = 0,
              !.m_lineNumber = 1, !.m_columNumber = 0,
              !.m_char = charAt(chars, 0),
              !.m_token = TokenReset(t.m_token),
              !.reads = {0}, !.tokenIndex = 0, !.calls = 0]

\* setText that counts lines from 0.
setTextLineZero(t, chars, length) ==
    [t EXCEPT !.m_chars = chars, !.m_length = length, !.m_index = 0,
              !.m_lineNumber = 0, !.m_columNumber = 0,
              !.m_char = IF length > 0 THEN charAt(chars, 0) ELSE Ascii.nul,
              !.m_token = TokenReset(t.m_token),
              !.reads = IF length > 0 THEN {0} ELSE {}, !.tokenIndex = 0,
              !.calls = 0]

setText(t, chars, length) ==
    [t EXCEPT !.m_chars = chars, !.m_length = length, !.m_index = 0,
              !.m_lineNumber = 1, !.m_columNumber = 0,
              !.m_char = IF length > 0 THEN charAt(chars, 0) ELSE Ascii.nul,
              !.m_token = TokenReset(t.m_token),
              !.reads = IF length > 0 THEN {0} ELSE {}, !.tokenIndex = 0,
              !.calls = 0]

\* Tokenizer::reset, tokenizer.hh:190-196: the cursor goes back to the start of
\* the text that is bound, m_chars[0] is read again, the token is reset.
reset(t) ==
    [t EXCEPT !.m_index = 0, !.m_lineNumber = 1, !.m_columNumber = 0,
              !.m_char = IF t.m_length > 0 THEN charAt(t.m_chars, 0)
                         ELSE Ascii.nul,
              !.m_token = TokenReset(t.m_token),
              !.reads = IF t.m_length > 0 THEN @ \cup {0} ELSE @,
              !.tokenIndex = 0, !.calls = 0]

\* The value advanceChar returns.
advanceCharOk(t) == ~(t.m_index + 1 >= t.m_length)

\* advanceChar, lines 135-143: m_chars[++m_index] is read and the line and
\* column follow it.
advanceCharRead(t) ==
    IF charAt(t.m_chars, t.m_index + 1) = Ascii.nl
    THEN [t EXCEPT !.m_index = @ + 1, !.m_char = charAt(t.m_chars, t.m_index + 1),
                   !.m_lineNumber = @ + 1, !.m_columNumber = 0,
                   !.reads = @ \cup {t.m_index + 1}]
    ELSE [t EXCEPT !.m_index = @ + 1, !.m_char = charAt(t.m_chars, t.m_index + 1),
                   !.m_columNumber = @ + 1,
                   !.reads = @ \cup {t.m_index + 1}]

\* advanceChar whose end test is `m_index >= m_length`.
advanceCharPastEnd(t) ==
    IF t.m_index >= t.m_length
    THEN [t EXCEPT !.m_char = Ascii.nul]
    ELSE advanceCharRead(t)

\* The tokenizer after advanceChar.
advanceChar(t) ==
    IF t.m_index + 1 >= t.m_length
    THEN [t EXCEPT !.m_char = Ascii.nul]
    ELSE advanceCharRead(t)

RECURSIVE skipWhitespace(_)
skipWhitespace(t) ==
    IF t.m_char \in {Ascii.space, Ascii.tab, Ascii.nl}
    THEN skipWhitespace(advanceChar(t))
    ELSE t

RECURSIVE skipCommentLoop(_)
skipCommentLoop(t) ==
    IF t.m_char # Ascii.nl
    THEN IF advanceCharOk(t) THEN skipCommentLoop(advanceChar(t))
         ELSE advanceChar(t)
    ELSE t

skipComment(t) == skipCommentLoop(advanceChar(t))

\* `if (m_char == '#')` for the loop: one comment is skipped at most.
skipCommentsOnce(t) ==
    IF t.m_char = Ascii.hash THEN skipWhitespace(skipComment(t))
    ELSE t

\* The loop `while (m_char == '#') { skipComment(); skipWhitespace(); }`.
RECURSIVE skipComments(_)
skipComments(t) ==
    IF t.m_char = Ascii.hash THEN skipComments(skipWhitespace(skipComment(t)))
    ELSE t

\* A read method's outcome: ok is what it returns, t the tokenizer it
\* leaves, exc the exception it throws (NoThrow when it returns).
Returned(ok, t) == [ok |-> ok, t |-> t, exc |-> NoThrow]
Thrown(t, exc)  == [ok |-> FALSE, t |-> t, exc |-> exc]

RECURSIVE readIdentifierLoop(_, _)
readIdentifierLoop(t, identifier) ==
    LET t1 == advanceChar(t)
    IN  IF advanceCharOk(t) /\ (isAlnum(t1.m_char) \/ t1.m_char = Ascii.underscore)
        THEN readIdentifierLoop(t1, Append(identifier, t1.m_char))
        ELSE [t |-> t1, identifier |-> identifier]

\* readIdentifier, lines 185-188: the token takes the identifier read.
readIdentifierEnd(r) ==
    Returned(TRUE, [r.t EXCEPT !.m_token.kind = "Identifier",
                               !.m_token.identifier = r.identifier])

readIdentifier(t) ==
    IF ~isAlpha(t.m_char) THEN Returned(FALSE, t)
    ELSE readIdentifierEnd(readIdentifierLoop(t, <<t.m_char>>))

\* The digit loop of readNumber:
\* `while (advanceChar() && isDigit(m_char, base)) value = value * base + digit`.
\* r is the tokenizer and the value before a pass.
RECURSIVE readNumberLoop(_, _)
readNumberLoop(r, base) ==
    LET t1 == advanceChar(r.t)
    IN  IF advanceCharOk(r.t) /\ isDigit(t1.m_char, base)
        THEN readNumberLoop(
                 [t |-> t1,
                  value |-> WordAdd(WordMulAdd(r.value, base, 0),
                                    WordFromInt(charToDigit(t1.m_char, base)))],
                 base)
        ELSE [t |-> t1, value |-> r.value]

\* `while (isAlnum(m_char)) advanceChar();`
RECURSIVE skipAlnum(_)
skipAlnum(t) == IF isAlnum(t.m_char) THEN skipAlnum(advanceChar(t)) ELSE t

InvalidDigitThrow(t, chr, base) ==
    Throw("InvalidDigit", t.m_token.span, "invalid digit '{}' for base {}",
          <<<<chr>>, FormatInt(WordFromInt(base))>>)

\* readNumber after the digit loop (tokenizer.cc:249-266): r is what the
\* loop left.
readNumberEnd(r, base, isNeg) ==
    IF isAlnum(r.t.m_char)
    THEN Thrown(skipAlnum(advanceChar(r.t)),
                InvalidDigitThrow(r.t, r.t.m_char, base))
    ELSE Returned(TRUE,
             [r.t EXCEPT !.m_token.kind = "Int",
                         !.m_token.i = IF isNeg THEN WordNeg(r.value)
                                       ELSE r.value])

\* readNumber from the digits on (tokenizer.cc:242-266).
readNumberDigits(t, base, isNeg) ==
    readNumberEnd(
        readNumberLoop(
            [t |-> t, value |-> WordFromInt(charToDigit(t.m_char, base))], base),
        base, isNeg)

\* readNumber, lines 235-238: after the base letter a digit of the base
\* must follow.
readNumberPrefixed(t, base, isNeg) ==
    IF ~isDigit(t.m_char, base)
    THEN Thrown(t, InvalidDigitThrow(t, t.m_char, base))
    ELSE readNumberDigits(t, base, isNeg)

\* readNumber after a leading '0' has been consumed (tokenizer.cc:217-239).
readNumberZero(t, isNeg) ==
    IF ~isDigit(t.m_char, 10)
    THEN IF t.m_char \in {Ascii.b, Ascii.B, Ascii.x, Ascii.X}
         THEN readNumberPrefixed(advanceChar(t),
                  IF t.m_char \in {Ascii.b, Ascii.B} THEN 2 ELSE 16, isNeg)
         ELSE Returned(TRUE, [t EXCEPT !.m_token.kind = "Int",
                                       !.m_token.i = WordZero])
    ELSE readNumberDigits(t, 10, isNeg)

\* readNumber after the sign (tokenizer.cc:214-266).
readNumberUnsigned(t, isNeg) ==
    IF t.m_char = Ascii.zero
    THEN readNumberZero(advanceChar(t), isNeg)
    ELSE readNumberDigits(t, 10, isNeg)

readNumber(t) ==
    IF ~isDigit(t.m_char, 10) /\ t.m_char # Ascii.minus /\ t.m_char # Ascii.plus
    THEN Returned(FALSE, t)
    ELSE readNumberUnsigned(
             IF ~isDigit(t.m_char, 10) THEN advanceChar(t) ELSE t,
             ~isDigit(t.m_char, 10) /\ t.m_char = Ascii.minus)

readPunctuaction(t) ==
    IF t.m_char \in {Ascii.lbrace, Ascii.rbrace, Ascii.lsqb, Ascii.rsqb,
                     Ascii.comma, Ascii.colon}
    THEN LET punctuaction ==
                 CASE t.m_char = Ascii.lbrace -> "Lbrace"
                   [] t.m_char = Ascii.rbrace -> "Rbrace"
                   [] t.m_char = Ascii.lsqb   -> "Lsqb"
                   [] t.m_char = Ascii.rsqb   -> "Rsqb"
                   [] t.m_char = Ascii.comma  -> "Comma"
                   [] t.m_char = Ascii.colon  -> "Colon"
         IN  Returned(TRUE,
                 [advanceChar(t) EXCEPT !.m_token.kind = "Punctuaction",
                                        !.m_token.punctuaction = punctuaction])
    ELSE Returned(FALSE, t)

\* The loop of readString: one pass per character of the literal.
RECURSIVE readStringLoop(_, _)
readStringLoop(t, string) ==
    LET t1 == advanceChar(t)
    IN  IF advanceCharOk(t) /\ t1.m_char # Ascii.quote
        THEN IF t1.m_char = Ascii.nl
             THEN [t |-> t1, string |-> string,
                   exc |-> Throw("ExpectedStringEnd", t1.m_token.span,
                                 "expected string end", <<>>)]
             ELSE IF t1.m_char = Ascii.backslash
             THEN LET t2 == advanceChar(t1)
                  IN  CASE t2.m_char = Ascii.n ->
                               readStringLoop(t2, Append(string, Ascii.nl))
                        [] t2.m_char = Ascii.t ->
                               readStringLoop(t2, Append(string, Ascii.tab))
                        [] t2.m_char = Ascii.backslash ->
                               readStringLoop(t2, Append(string, Ascii.backslash))
                        [] t2.m_char = Ascii.quote ->
                               readStringLoop(t2, Append(string, Ascii.quote))
                        [] OTHER ->
                               [t |-> t2, string |-> string,
                                exc |-> Throw("InvalidEscape", t2.m_token.span,
                                              "invalid escape sequence '{}'",
                                              <<<<t2.m_char>>>>)]
             ELSE readStringLoop(t1, Append(string, t1.m_char))
        ELSE [t |-> t1, string |-> string, exc |-> NoThrow]

\* readString after its loop (tokenizer.cc:332-340): r is what the loop left.
readStringEnd(r) ==
    IF r.exc.thrown THEN Thrown(r.t, r.exc)
    ELSE IF r.t.m_char # Ascii.quote
    THEN Thrown(r.t, Throw("ExpectedStringEnd", r.t.m_token.span,
                           "expected string end", <<>>))
    ELSE Returned(TRUE,
             [advanceChar(r.t) EXCEPT !.m_token.kind = "String",
                                      !.m_token.string = r.string])

readString(t) ==
    IF t.m_char # Ascii.quote THEN Returned(FALSE, t)
    ELSE readStringEnd(readStringLoop(t, <<>>))

\* readMisc that counts a column for the end of the text.
readMiscCounts(t) ==
    IF t.m_char = Ascii.nul
    THEN Returned(TRUE, [t EXCEPT !.m_token.kind = "Eof",
                                  !.m_columNumber = @ + 1])
    ELSE Thrown(t, Throw("UnknownChar", t.m_token.span,
                         "unknown character '{}'", <<<<t.m_char>>>>))

readMisc(t) ==
    IF t.m_char = Ascii.nul
    THEN Returned(TRUE, [t EXCEPT !.m_token.kind = "Eof"])
    ELSE Thrown(t, Throw("UnknownChar", t.m_token.span,
                         "unknown character '{}'", <<<<t.m_char>>>>))

\* The loop over READ_METHODS: r is what the method before returned; the
\* first method that returns true (or throws) ends the loop.
readMethod4(r, t) == IF r.ok \/ r.exc.thrown THEN r ELSE readMisc(t)
readMethod3(r, t) == IF r.ok \/ r.exc.thrown THEN r ELSE readMethod4(readString(t), t)
readMethod2(r, t) == IF r.ok \/ r.exc.thrown THEN r ELSE readMethod3(readPunctuaction(t), t)
readMethod1(r, t) == IF r.ok \/ r.exc.thrown THEN r ELSE readMethod2(readNumber(t), t)

readToken(t) == readMethod1(readIdentifier(t), t)

\* advance, lines 112-116: the token is reset and its span set to the cursor.
advanceBegin(t) ==
    [t EXCEPT !.m_token =
        [TokenReset(t.m_token) EXCEPT !.span =
            [beginLineNumber |-> t.m_lineNumber,
             beginColumnNumber |-> t.m_columNumber,
             endLineNumber |-> t.m_lineNumber,
             endColumnNumber |-> t.m_columNumber]],
              !.tokenIndex = t.m_index, !.calls = @ + 1]

\* advance, lines 123-126: the span's end is set to the cursor; ok is what
\* advance returns (the token is not Eof).
advanceEnd(r) ==
    IF r.exc.thrown THEN r
    ELSE Returned(r.t.m_token.kind # "Eof",
             [r.t EXCEPT !.m_token.span.endLineNumber = r.t.m_lineNumber,
                         !.m_token.span.endColumnNumber = r.t.m_columNumber])

\* Tokenizer::advance.
advance(t) == advanceEnd(readToken(advanceBegin(skipComments(skipWhitespace(t)))))

\* -------------------------------------------------------------- the value

ValueType == {"Undefined", "Null", "Bool", "Int", "Float", "String",
              "Array", "Dict"}

\* Value(): Undefined, data.i zero.  ValueData is a union: the members that
\* are not live are kept at these defaults.  An Array is the sequence of its
\* elements; a Dict (std::map) is the sequence of its entries in the order
\* the map iterates them.
ValueNew == [type |-> "Undefined", b |-> FALSE, i |-> WordZero, f |-> 0,
             string |-> <<>>, array |-> <<>>, dict |-> <<>>]

\* The constructors of Value (value.hh:63-87).
ValueNull        == [ValueNew EXCEPT !.type = "Null"]
ValueBool(x)     == [ValueNew EXCEPT !.type = "Bool", !.b = x]
ValueInt(x)      == [ValueNew EXCEPT !.type = "Int", !.i = x]
ValueFloat(x)    == [ValueNew EXCEPT !.type = "Float", !.f = x]
ValueString(x)   == [ValueNew EXCEPT !.type = "String", !.string = x]
ValueArray(x)    == [ValueNew EXCEPT !.type = "Array", !.array = x]
ValueDict(x)     == [ValueNew EXCEPT !.type = "Dict", !.dict = x]

\* Value::moveDataTo into fresh storage, with the type the constructor copies.
moveDataTo(that) ==
    CASE that.type = "Bool"   -> [ValueNew EXCEPT !.type = that.type, !.b = that.b]
      [] that.type = "Int"    -> [ValueNew EXCEPT !.type = that.type, !.i = that.i]
      [] that.type = "Float"  -> [ValueNew EXCEPT !.type = that.type, !.f = that.f]
      [] that.type = "String" -> [ValueNew EXCEPT !.type = that.type, !.string = that.string]
      [] that.type = "Array"  -> [ValueNew EXCEPT !.type = that.type, !.array = that.array]
      [] that.type = "Dict"   -> [ValueNew EXCEPT !.type = that.type, !.dict = that.dict]
      [] OTHER                -> [ValueNew EXCEPT !.type = that.type, !.i = WordZero]

\* The source of a move that forgets `that.type = ValueType::Undefined`.
MovedFromKeepsType(that) ==
    [that EXCEPT !.string = <<>>, !.array = <<>>, !.dict = <<>>]

\* The source of a move, value.hh:94-95 and 125-126: moveDataTo has moved the
\* container out of it (a moved-from std::string, std::vector or std::map of
\* the library the code is built with is empty; a scalar stays where it is)
\* and its type is set to Undefined.
MovedFrom(that) ==
    [that EXCEPT !.type = "Undefined",
                 !.string = <<>>, !.array = <<>>, !.dict = <<>>]

\* Value::clear, value.hh:103-108: what a Value that is not Undefined holds is
\* released (of a String, an Array or a Dict nothing is left, a scalar stays
\* where it is) and its type is set to Undefined.
clear(v) ==
    IF v.type # "Undefined"
    THEN [v EXCEPT !.type = "Undefined",
                   !.string = <<>>, !.array = <<>>, !.dict = <<>>]
    ELSE v

\* Value::Value(Value&& that): this is the Value constructed, that the source
\* afterwards.
MoveConstruct(that) == [this |-> moveDataTo(that), that |-> MovedFrom(that)]

\* Value::operator=(Value&& that) on a this that is another object than that:
\* what this held is released and nothing of it is left, its storage is then
\* filled as the move constructor fills fresh storage.
MoveAssign(this, that) == [this |-> moveDataTo(that), that |-> MovedFrom(that)]

\* Value::copyDataTo into fresh storage, with the type operator= copies.
copyDataTo(that) ==
    CASE that.type = "Bool"   -> [ValueNew EXCEPT !.type = that.type, !.b = that.b]
      [] that.type = "Int"    -> [ValueNew EXCEPT !.type = that.type, !.i = that.i]
      [] that.type = "Float"  -> [ValueNew EXCEPT !.type = that.type, !.f = that.f]
      [] that.type = "String" -> [ValueNew EXCEPT !.type = that.type, !.string = that.string]
      [] that.type = "Array"  -> [ValueNew EXCEPT !.type = that.type, !.array = that.array]
      [] that.type = "Dict"   -> [ValueNew EXCEPT !.type = that.type, !.dict = that.dict]
      [] OTHER                -> [ValueNew EXCEPT !.type = that.type, !.i = WordZero]

\* Value::operator=(Value const& that) on a this that is another object than
\* that: what this held is released, its storage is then filled with a copy,
\* and that is as it was.
CopyAssign(this, that) == [this |-> copyDataTo(that), that |-> that]

\* Value::operator=(Value const& that) with that the object itself, value.hh:
\* 111-115: releaseData destroys the String, Array or Dict, and copyDataTo then
\* copy-constructs the member from itself, destroyed, in its own storage.
\* That is undefined behaviour: the object keeps its type and may hold any
\* contents of that type afterwards (the build the code was run with empties
\* an Array and a Dict, keeps a short String and garbles a long one): what
\* it held, or one of the contents of held.  The other types have nothing to
\* release and copy a scalar onto itself.
SelfAssigned(v, held) ==
    IF v.type \in {"String", "Array", "Dict"}
    THEN {w \in held \cup {v} : w.type = v.type}
    ELSE {copyDataTo(v)}

\* The typed accessors, value.hh:135-175: ok is false when the call throws
\* std::runtime_error(what), otherwise data is what it returns.
NotCalled == [called |-> FALSE, ok |-> FALSE, what |-> <<>>, data |-> <<>>]
Mismatch(what) == [called |-> TRUE, ok |-> FALSE, what |-> what, data |-> <<>>]
Got(data) == [called |-> TRUE, ok |-> TRUE, what |-> <<>>, data |-> data]

getBool(v) ==
    IF v.type # "Bool" THEN Mismatch("Value::getBool() -> type mismatch")
    ELSE Got(v.b)

getInt(v) ==
    IF v.type # "Int" THEN Mismatch("Value::getInt() -> type mismatch")
    ELSE Got(v.i)

getFloat(v) ==
    IF v.type # "Float" THEN Mismatch("Value::getFloat() -> type mismatch")
    ELSE Got(v.f)

getString(v) ==
    IF v.type # "String" THEN Mismatch("Value::getString() -> type mismatch")
    ELSE Got(v.string)

getArray(v) ==
    IF v.type # "Array" THEN Mismatch("Value::getArray() -> type mismatch")
    ELSE Got(v.array)

getDict(v) ==
    IF v.type # "Dict" THEN Mismatch("Value::getDict() -> type mismatch")
    ELSE Got(v.dict)

Accessors == {"getBool", "getInt", "getFloat", "getString", "getArray", "getDict"}

\* std::less<std::string>: byte-wise lexicographic order, a proper prefix first.
RECURSIVE StringLess(_, _)
StringLess(x, y) ==
    IF y = <<>> THEN FALSE
    ELSE IF x = <<>> THEN TRUE
    ELSE IF x[1] # y[1] THEN x[1] < y[1]
    ELSE StringLess(Tail(x), Tail(y))

DictKeys(dict) == {dict[k].key : k \in 1..Len(dict)}

\* A map that keeps its entries in the order they were inserted.
DictPlaceAtEnd(dict, entry) == Append(dict, entry)

\* std::map::insert: the entry goes to its place in key order unless the key
\* is present; inserted is the bool of the returned pair.
RECURSIVE DictPlace(_, _)
DictPlace(dict, entry) ==
    IF dict = <<>> THEN <<entry>>
    ELSE IF StringLess(entry.key, dict[1].key) THEN <<entry>> \o dict
    ELSE <<dict[1]>> \o DictPlace(Tail(dict), entry)

DictInsert(dict, key, val) ==
    IF key \in DictKeys(dict)
    THEN [dict |-> dict, inserted |-> FALSE]
    ELSE [dict |-> DictPlace(dict, [key |-> key, value |-> val]),
          inserted |-> TRUE]

\* push_back that puts the new element first.
ArrayPushFront(array, val) == <<moveDataTo(val)>> \o array

\* std::vector::push_back of a moved Value.
ArrayPushBack(array, val) == Append(array, moveDataTo(val))

\* ------------------------------------------------------------- the parser

VARIABLES
    text,       \* the chars handed to gcl::parse
    tokenizer,  \* Parser::tokenizer
    pc,         \* where the parse is: idle, parseValue, parseArray, parseDict,
                \* dictLoop, ret (a parseValue call has just returned), done, thrown
    stack,      \* the parseArray / parseDict calls in progress, innermost last
    value,      \* the output of the parseValue call that returned last
    retval,     \* what that call returned
    output,     \* the Value gcl::parse was given
    raised,     \* the arguments of the GclException constructor, when thrown
    exception,  \* the GclException object in flight
    result      \* what each typed accessor gave when it was called on value

vars == <<text, tokenizer, pc, stack, value, retval, output, raised, exception,
          result>>

\* One parseArray or parseDict call: the container it fills (output of the
\* enclosing parseValue) and, in a dict, the key read last.
Frame(kind) == [kind |-> kind, array |-> <<>>, dict |-> <<>>, identifier |-> <<>>]

FrameValue(frame) ==
    IF frame.kind = "Array"
    THEN [ValueNew EXCEPT !.type = "Array", !.array = frame.array]
    ELSE [ValueNew EXCEPT !.type = "Dict", !.dict = frame.dict]

Top(s) == s[Len(s)]
Pop(s) == SubSeq(s, 1, Len(s) - 1)

IsPunctuaction(token, p) ==
    token.kind = "Punctuaction" /\ token.punctuaction = p

\* What a step leaves: the parser's position and the exception it throws, if any.
Going(t, p, s, v, r, o) ==
    [tokenizer |-> t, pc |-> p, stack |-> s, value |-> v, retval |-> r,
     output |-> o, exc |-> NoThrow]

Throwing(t, s, o, exc) ==
    [tokenizer |-> t, pc |-> "thrown", stack |-> s, value |-> value,
     retval |-> retval, output |-> o, exc |-> exc]

\* The caller's Value while the calls of s are in progress: the container of
\* the outermost call, or top when there is none.
OutputOf(s, top) == IF s = <<>> THEN top ELSE FrameValue(s[1])

\* GclException::GclException: span and info are initialised from the
\* arguments; errorID has no initialiser, its value is indeterminate.
IndeterminateErrorID == GclErrorID \cup {"<out of range>"}

GclException(errorID, span, info, indeterminate) ==
    [thrown |-> TRUE, errorID |-> indeterminate, span |-> span, info |-> info]

\* The step n takes effect; a throw unwinds every call in progress.
Apply(n) ==
    /\ tokenizer' = n.tokenizer
    /\ pc' = n.pc
    /\ stack' = IF n.exc.thrown THEN <<>> ELSE n.stack
    /\ value' = n.value
    /\ retval' = n.retval
    /\ output' = n.output
    /\ raised' = n.exc
    /\ UNCHANGED result
    /\ IF n.exc.thrown
       THEN \E e \in IndeterminateErrorID :
                exception' = GclException(n.exc.errorID, n.exc.span, n.exc.info, e)
       ELSE exception' = NoThrow

\* A call tokenizer.advance() has returned r: what it threw goes on to the
\* caller (the calls of s in progress, the caller's Value o), otherwise the
\* parse goes on at p.
Advanced(r, s, o, p, sNext, v, rv, oNext) ==
    IF r.exc.thrown THEN Throwing(r.t, s, o, r.exc)
    ELSE Going(r.t, p, sNext, v, rv, oNext)

\* "true", "false", "null" as the tokenizer spells them.
IdTrue  == <<116, 114, 117, 101>>
\* "False" for "false".
IdFalseCapital == <<70, 97, 108, 115, 101>>
IdFalse == <<102, 97, 108, 115, 101>>
IdNull  == <<110, 117, 108, 108>>

\* The tail of a scalar branch of parseValue: out is set, then
\* tokenizer.advance() and `return true`.
parseValueAdvance(s, out) ==
    Advanced(advance(tokenizer), s, OutputOf(s, out),
             "ret", s, out, TRUE, OutputOf(s, out))

\* Parser::parseValue on the current token, up to its return or to the call of
\* parseDict / parseArray.  out is the Value the call was given.
parseValue(s, out) ==
    LET token == tokenizer.m_token
    IN  IF token.kind = "Punctuaction"
        THEN IF token.punctuaction = "Lbrace"
             THEN LET s1 == Append(s, Frame("Dict"))
                  IN  Going(tokenizer, "parseDict", s1, value, retval, OutputOf(s1, out))
             ELSE IF token.punctuaction = "Lsqb"
             THEN LET s1 == Append(s, Frame("Array"))
                  IN  Going(tokenizer, "parseArray", s1, value, retval, OutputOf(s1, out))
             ELSE Going(tokenizer, "ret", s, out, TRUE, OutputOf(s, out))
        ELSE IF token.kind = "String"
        THEN parseValueAdvance(s, [out EXCEPT !.type = "String", !.string = token.string])
        ELSE IF token.kind = "Int"
        THEN parseValueAdvance(s, [out EXCEPT !.type = "Int", !.i = token.i])
        ELSE IF token.kind = "Float"
        THEN parseValueAdvance(s, [out EXCEPT !.type = "Float", !.f = token.f])
        ELSE IF token.kind = "Identifier"
        THEN IF token.identifier = IdTrue
             THEN parseValueAdvance(s, [out EXCEPT !.type = "Bool", !.b = TRUE])
             ELSE IF token.identifier = IdFalse
             THEN parseValueAdvance(s, [out EXCEPT !.type = "Bool", !.b = FALSE])
             ELSE IF token.identifier = IdNull
             THEN parseValueAdvance(s, [out EXCEPT !.type = "Null", !.i = WordZero])
             ELSE Going(tokenizer, "ret", s, out, FALSE, OutputOf(s, out))
        ELSE Going(tokenizer, "ret", s, out, FALSE, OutputOf(s, out))

ExpectedValueThrow(token) ==
    Throw("ExpectedValue", token.span, "expected a value but found '{}'",
          <<FormatToken(token)>>)

ExpectedPunctuactionThrow(token, fmt) ==
    Throw("ExpectedPunctuaction", token.span, fmt, <<FormatToken(token)>>)

\* parseArray / parseDict from the check after the loop on: the closing
\* bracket is required and eaten, the call returns, and the parseValue that
\* made it returns true with the container.
parseClose(s, closing, fmt) ==
    IF ~IsPunctuaction(tokenizer.m_token, closing)
    THEN Throwing(tokenizer, s, OutputOf(s, ValueNew),
                  ExpectedPunctuactionThrow(tokenizer.m_token, fmt))
    ELSE Advanced(advance(tokenizer), s, OutputOf(s, ValueNew),
                  "ret", Pop(s), FrameValue(Top(s)), TRUE,
                  OutputOf(Pop(s), FrameValue(Top(s))))

\* The same without the tokenizer.advance() that eats the comma.
parseSeparatorStays(s, closing, next, closeFmt) ==
    IF ~IsPunctuaction(tokenizer.m_token, "Comma")
    THEN IF IsPunctuaction(tokenizer.m_token, closing)
         THEN parseClose(s, closing, closeFmt)
         ELSE Throwing(tokenizer, s, OutputOf(s, ValueNew),
                  ExpectedPunctuactionThrow(tokenizer.m_token,
                      "expected ',' but found '{}'"))
    ELSE Going(tokenizer, next, s, value, retval, OutputOf(s, ValueNew))

\* After an element or a pair: `,` goes on with the loop (pc next), the
\* closing bracket leaves it, anything else throws.
parseSeparator(s, closing, next, closeFmt) ==
    IF ~IsPunctuaction(tokenizer.m_token, "Comma")
    THEN IF IsPunctuaction(tokenizer.m_token, closing)
         THEN parseClose(s, closing, closeFmt)
         ELSE Throwing(tokenizer, s, OutputOf(s, ValueNew),
                  ExpectedPunctuactionThrow(tokenizer.m_token,
                      "expected ',' but found '{}'"))
    ELSE Advanced(advance(tokenizer), s, OutputOf(s, ValueNew),
                  next, s, value, retval, OutputOf(s, ValueNew))

\* Parser::parseArray, lines 87-90: eat the left square bracket.
parseArrayEnter(s) ==
    Advanced(advance(tokenizer), s, OutputOf(s, ValueNew),
             "parseValue", s, value, retval, OutputOf(s, ValueNew))

\* Parser::parseArray, lines 95-114: parseValue(value) has returned.
parseArrayNext(s) ==
    IF ~retval
    THEN Throwing(tokenizer, s, OutputOf(s, ValueNew),
                  ExpectedValueThrow(tokenizer.m_token))
    ELSE parseSeparator([s EXCEPT ![Len(s)].array = ArrayPushBack(@, value)],
                        "Rsqb", "parseValue", "expected ']' but found '{}'")

\* Parser::parseDict, lines 118-121: eat the left brace.
parseDictEnter(s) ==
    Advanced(advance(tokenizer), s, OutputOf(s, ValueNew),
             "dictLoop", s, value, retval, OutputOf(s, ValueNew))

\* Parser::parseDict, lines 128-137: the identifier has been eaten (r is what
\* that advance left); the colon is required and eaten, then parseValue(value)
\* is called.
parseDictColon(r, s, identifier) ==
    IF r.exc.thrown
    THEN Throwing(r.t, s, OutputOf(s, ValueNew), r.exc)
    ELSE IF ~IsPunctuaction(r.t.m_token, "Colon")
    THEN Throwing(r.t, s, OutputOf(s, ValueNew),
             ExpectedPunctuactionThrow(r.t.m_token, "expected ':' but found '{}'"))
    ELSE Advanced(advance(r.t), s, OutputOf(s, ValueNew),
                  "parseValue", [s EXCEPT ![Len(s)].identifier = identifier],
                  value, retval, OutputOf(s, ValueNew))

\* Parser::parseDict, lines 124-137: the head of the loop, up to the call
\* parseValue(value); without an identifier the loop is left.
parseDictLoop(s) ==
    IF tokenizer.m_token.kind # "Identifier"
    THEN parseClose(s, "Rbrace", "expected '}}' but found '{}'")
    ELSE parseDictColon(advance(tokenizer), s, tokenizer.m_token.identifier)

\* Parser::parseDict, lines 137-157: parseValue(value) has returned.
\* Parser::parseDict, lines 140-151: it is what output.insert returned.
parseDictInserted(it, s) ==
    IF ~it.inserted
    THEN Throwing(tokenizer, [s EXCEPT ![Len(s)].dict = it.dict],
                  OutputOf([s EXCEPT ![Len(s)].dict = it.dict], ValueNew),
                  Throw("ExpectedPunctuaction", tokenizer.m_token.span,
                        "key '{}' already defined", <<Top(s).identifier>>))
    ELSE parseSeparator([s EXCEPT ![Len(s)].dict = it.dict],
                        "Rbrace", "dictLoop", "expected '}}' but found '{}'")

parseDictNext(s) ==
    IF ~retval
    THEN Throwing(tokenizer, s, OutputOf(s, ValueNew),
                  ExpectedValueThrow(tokenizer.m_token))
    ELSE parseDictInserted(
             DictInsert(Top(s).dict, Top(s).identifier, moveDataTo(value)), s)

\* ------------------------------------------------------------- the inputs

MaxPieces == 3
MaxDigits == 3
MaxPairs  == 3
MaxElems  == 3

SeqsUpTo(S, n) == UNION {[1..k -> S] : k \in 0..n}

RECURSIVE Flatten(_)
Flatten(ss) == IF ss = <<>> THEN <<>> ELSE ss[1] \o Flatten(Tail(ss))

\* The pieces joined with a comma between them.
RECURSIVE JoinComma(_)
JoinComma(ss) ==
    IF ss = <<>> THEN <<>>
    ELSE IF Len(ss) = 1 THEN ss[1]
    ELSE ss[1] \o <<Ascii.comma>> \o JoinComma(Tail(ss))

\* Texts of a few tokens in any order: { } [ ] , : a 1 true "s"
Pieces == {<<Ascii.lbrace>>, <<Ascii.rbrace>>, <<Ascii.lsqb>>, <<Ascii.rsqb>>,
           <<Ascii.comma>>, <<Ascii.colon>>, <<Ascii.a>>, <<Ascii.one>>,
           IdTrue, <<Ascii.quote, 115, Ascii.quote>>}

PieceTexts == {Flatten(ps) : ps \in SeqsUpTo(Pieces, MaxPieces)}

\* Number literals and near misses: sign, base prefix, digits, one more character.
Signs      == {<<>>, <<Ascii.plus>>, <<Ascii.minus>>}
Prefixes   == {<<>>, <<Ascii.zero, Ascii.b>>, <<Ascii.zero, Ascii.B>>,
               <<Ascii.zero, Ascii.x>>, <<Ascii.zero, Ascii.X>>}
DigitChars == {Ascii.zero, Ascii.one, Ascii.nine, Ascii.a, Ascii.F}
Trailers   == {<<>>, <<103>>, <<Ascii.comma>>, <<Ascii.underscore>>}

NumberTexts ==
    {sg \o px \o ds \o tr : sg \in Signs, px \in Prefixes,
                            ds \in SeqsUpTo(DigitChars, MaxDigits), tr \in Trailers}

\* Dict literals: pairs of a key a, ab or b and a value 1 or 2, then } or a
\* trailing comma or nothing.
Keys       == {<<Ascii.a>>, <<Ascii.a, Ascii.b>>, <<Ascii.b>>}
PairValues == {<<Ascii.one>>, <<Ascii.one + 1>>}
Pairs      == {k \o <<Ascii.colon>> \o v : k \in Keys, v \in PairValues}
DictTails  == {<<Ascii.rbrace>>, <<Ascii.comma, Ascii.rbrace>>, <<>>, <<Ascii.comma>>}

DictTexts ==
    {<<Ascii.lbrace>> \o JoinComma(ps) \o tl :
         ps \in SeqsUpTo(Pairs, MaxPairs), tl \in DictTails}

\* Array literals: elements 1, 2, true, null, "s", [2], {a:1}, then ] or a
\* trailing comma or nothing.
Elems == {<<Ascii.one>>, <<Ascii.one + 1>>, IdTrue, IdNull,
          <<Ascii.quote, 115, Ascii.quote>>,
          <<Ascii.lsqb, Ascii.one + 1, Ascii.rsqb>>,
          <<Ascii.lbrace, Ascii.a, Ascii.colon, Ascii.one, Ascii.rbrace>>}
ArrayTails == {<<Ascii.rsqb>>, <<Ascii.comma, Ascii.rsqb>>, <<>>, <<Ascii.comma>>}

ArrayTexts ==
    {<<Ascii.lsqb>> \o JoinComma(es) \o tl :
         es \in SeqsUpTo(Elems, MaxElems), tl \in ArrayTails}

\* String literals and near misses: the opening quote, then a few of
\* a n t \ " and the newline.
MaxChars == 4
StringChars == {Ascii.a, Ascii.n, Ascii.t, Ascii.backslash, Ascii.quote, Ascii.nl}

StringTexts ==
    {<<Ascii.quote>> \o cs : cs \in SeqsUpTo(StringChars, MaxChars)}

\* Texts laid out over lines: a few of a 1 [ @ # and the space and the newline.
MaxLayout == 4
LayoutChars == {Ascii.a, Ascii.one, Ascii.lsqb, Ascii.at, Ascii.hash,
                Ascii.space, Ascii.nl}

LayoutTexts == SeqsUpTo(LayoutChars, MaxLayout)

\* A complete value, then what may follow a document: nothing, or a space
\* and then a value, a stray bracket or comma, a character of no token, an
\* unterminated string, a number with a digit that is none.
DocumentValues ==
    {<<Ascii.one>>, IdTrue, IdNull, <<Ascii.quote, 115, Ascii.quote>>,
     <<Ascii.lsqb, Ascii.one, Ascii.rsqb>>,
     <<Ascii.lbrace, Ascii.a, Ascii.colon, Ascii.one, Ascii.rbrace>>}
DocumentTails ==
    {<<>>, <<Ascii.one>>, <<Ascii.rsqb>>, <<Ascii.rbrace>>, <<Ascii.comma>>,
     <<Ascii.a>>, <<Ascii.lsqb>>, <<Ascii.at>>, <<Ascii.quote, Ascii.a>>,
     <<Ascii.one, Ascii.a>>, <<Ascii.nl, Ascii.at>>}

DocumentTexts ==
    {v \o (IF tl = <<>> THEN tl ELSE <<Ascii.space>> \o tl) :
         v \in DocumentValues, tl \in DocumentTails}

\* Texts with comments: a few of a 1 , "#" #a #" # and the space and the
\* newline.
MaxParts == 3
CommentParts ==
    {<<Ascii.a>>, <<Ascii.one>>, <<Ascii.comma>>,
     <<Ascii.quote, Ascii.hash, Ascii.quote>>,
     <<Ascii.hash, Ascii.a>>, <<Ascii.hash, Ascii.quote>>, <<Ascii.hash>>,
     <<Ascii.space>>, <<Ascii.nl>>}

CommentTexts == {Flatten(ps) : ps \in SeqsUpTo(CommentParts, MaxParts)}

\* Texts that open with a sign: the sign, then a few of # 1 and the newline.
MaxSigned == 2
SignedChars == {Ascii.hash, Ascii.one, Ascii.nl}

SignedTexts ==
    {<<s>> \o cs : s \in {Ascii.plus, Ascii.minus},
                   cs \in SeqsUpTo(SignedChars, MaxSigned)}

\* How many times advance is called on a text.
MaxAdvances == 4

\* Integer literals above the machine word.  Each is a sign, the characters
\* after it, and word, the magnitude modulo 2^64 as its limbs of 16 bits,
\* least first, found from the digits without the arithmetic of the code.
MaxOver == 2

RECURSIVE Power(_, _)
Power(radix, j) == IF j = 0 THEN 1 ELSE radix * Power(radix, j - 1)

RECURSIVE Repeat(_, _)
Repeat(s, n) == IF n = 0 THEN <<>> ELSE s \o Repeat(s, n - 1)

\* The value of the digit character c, of 0-9, a-f and A-F.
DigitValue(c) ==
    IF c >= 97 THEN c - 87 ELSE IF c >= 65 THEN c - 55 ELSE c - 48

\* The j-th digit from the right, counted from 0; 0 to the left of the digits.
DigitFromRight(ds, j) ==
    IF j < Len(ds) THEN DigitValue(ds[Len(ds) - j]) ELSE 0

\* The digits first .. first + per - 1 from the right, read in the radix.
RECURSIVE LimbOf(_, _, _, _, _)
LimbOf(ds, radix, per, first, j) ==
    IF j >= per THEN 0
    ELSE DigitFromRight(ds, first + j) * Power(radix, j)
         + LimbOf(ds, radix, per, first, j + 1)

\* In a radix that is a power of two, 2^64 cuts the digits: a limb of 16
\* bits is `per` digits (4 in hex), and the digits to the left of the 64
\* bits drop out.
LowWord(ds, radix, per) ==
    [k \in 1..4 |-> LimbOf(ds, radix, per, (k - 1) * per, 0)]

HexHeads == SeqsUpTo({Ascii.one, 102}, MaxOver) \ {<<>>}
HexBodies ==
    {Repeat(<<Ascii.zero>>, 16), Repeat(<<102>>, 16),
     <<56>> \o Repeat(<<Ascii.zero>>, 15),
     <<48, 49, 50, 51, 52, 53, 54, 55, 56, 57, 97, 98, 99, 100, 101, 102>>,
     <<70, 69, 68, 67, 66, 65, 57, 56, 55, 54, 53, 52, 51, 50, 49, 48>>}
HexLiterals ==
    {[sign |-> sg, digits |-> <<Ascii.zero, Ascii.x>> \o h \o b,
      word |-> LowWord(h \o b, 16, 4)] :
         sg \in Signs, h \in HexHeads, b \in HexBodies}

\* 2^64 is 18446744073709551616: the decimal literals 184467440737095516dd
\* with dd from 16 on are 2^64 + (dd - 16); and 99999999999999999999 is
\* 5 * 2^64 + 7766279631452241919, which is 6bc7 5e2d 630f ffff in hex.
DecLiterals ==
    {[sign |-> sg,
      digits |-> <<49, 56, 52, 52, 54, 55, 52, 52, 48, 55, 51, 55, 48, 57, 53,
                   53, 49, 54>> \o <<48 + (dd \div 10), 48 + (dd % 10)>>,
      word |-> <<dd - 16, 0, 0, 0>>] :
         sg \in Signs, dd \in {16, 17, 25, 99}}
    \cup {[sign |-> sg, digits |-> Repeat(<<Ascii.nine>>, 20),
           word |-> <<65535, 25359, 24109, 27591>>] : sg \in Signs}

BigLiterals == HexLiterals \cup DecLiterals

BigTexts == {lit.sign \o lit.digits : lit \in BigLiterals}

\* Words: true, false, null, and words near them (True, TRUE, False, FALSE,
\* Null, NULL, tru, truee, fals, nul, nulll, true1, t, yes), alone, followed
\* by a space and 1 , or @, or as the element of an array.
Words ==
    {<<116, 114, 117, 101>>, <<102, 97, 108, 115, 101>>, <<110, 117, 108, 108>>,
     <<84, 114, 117, 101>>, <<84, 82, 85, 69>>,
     <<70, 97, 108, 115, 101>>, <<70, 65, 76, 83, 69>>,
     <<78, 117, 108, 108>>, <<78, 85, 76, 76>>,
     <<116, 114, 117>>, <<116, 114, 117, 101, 101>>, <<102, 97, 108, 115>>,
     <<110, 117, 108>>, <<110, 117, 108, 108, 108>>,
     <<116, 114, 117, 101, 49>>, <<116>>, <<121, 101, 115>>}
WordTails ==
    {<<>>, <<Ascii.space, Ascii.one>>, <<Ascii.space, Ascii.comma>>,
     <<Ascii.space, Ascii.at>>}

WordTexts ==
    {w \o tl : w \in Words, tl \in WordTails}
    \cup {<<Ascii.lsqb>> \o w \o <<Ascii.rsqb>> : w \in Words}

Texts == PieceTexts \cup NumberTexts \cup DictTexts \cup ArrayTexts
         \cup StringTexts \cup LayoutTexts \cup DocumentTexts \cup BigTexts
         \cup WordTexts

\* The Values the constructors of Value build: the scalars, and arrays and
\* dicts of a few scalars.
MaxItems == 2
FloatSamples == {0, 1}
ScalarValues ==
    {ValueNew, ValueNull, ValueBool(TRUE), ValueBool(FALSE),
     ValueInt(WordZero), ValueInt(WordFromInt(7)), ValueInt(WordFromInt(0 - 1)),
     ValueString(<<>>), ValueString(<<Ascii.a>>)}
    \cup {ValueFloat(x) : x \in FloatSamples}
ArrayValues == {ValueArray(vs) : vs \in SeqsUpTo(ScalarValues, MaxItems)}
DictValues ==
    {ValueDict([k \in 1..Len(vs) |-> [key |-> <<Ascii.a + k - 1>>, value |-> vs[k]]]) :
         vs \in SeqsUpTo(ScalarValues, MaxItems)}
Values == ScalarValues \cup ArrayValues \cup DictValues

\* What the destination of a move assignment holds beforehand: a Value of
\* each type.
DestinationValues ==
    ScalarValues
    \cup {ValueArray(<<ValueNull>>),
          ValueDict(<<[key |-> <<Ascii.a>>, value |-> ValueNull]>>)}

\* What a String, an Array or a Dict may hold after it has been assigned to
\* itself, besides what it held: nothing, or something else.
SelfAssignedValues ==
    {ValueString(<<>>), ValueString(<<Ascii.a>>),
     ValueArray(<<>>), ValueArray(<<ValueNull>>),
     ValueDict(<<>>), ValueDict(<<[key |-> <<Ascii.a>>, value |-> ValueNull]>>)}

\* ------------------------------------------------------------ the actions

Init ==
    /\ text = <<>>
    /\ tokenizer = TokenizerNew
    /\ pc = "idle"
    /\ stack = <<>>
    /\ value = ValueNew
    /\ retval = FALSE
    /\ output = ValueNew
    /\ raised = NoThrow
    /\ exception = NoThrow
    /\ result = [a \in Accessors |-> NotCalled]

\* gcl::parse, lines 21-23: bind the text and read the first token.
Parse ==
    /\ pc = "idle"
    /\ \E chars \in Texts :
           /\ text' = chars
           /\ Apply(Advanced(advance(setText(tokenizer, chars, Len(chars))),
                             <<>>, output,
                             "parseValue", <<>>, value, retval, output))

ParseValue ==
    /\ pc = "parseValue"
    /\ Apply(parseValue(stack, IF stack = <<>> THEN output ELSE ValueNew))
    /\ UNCHANGED text

ParseArrayEnter ==
    /\ pc = "parseArray"
    /\ Apply(parseArrayEnter(stack))
    /\ UNCHANGED text

ParseArrayNext ==
    /\ pc = "ret"
    /\ stack # <<>>
    /\ Top(stack).kind = "Array"
    /\ Apply(parseArrayNext(stack))
    /\ UNCHANGED text

ParseDictEnter ==
    /\ pc = "parseDict"
    /\ Apply(parseDictEnter(stack))
    /\ UNCHANGED text

ParseDictLoop ==
    /\ pc = "dictLoop"
    /\ Apply(parseDictLoop(stack))
    /\ UNCHANGED text

ParseDictNext ==
    /\ pc = "ret"
    /\ stack # <<>>
    /\ Top(stack).kind = "Dict"
    /\ Apply(parseDictNext(stack))
    /\ UNCHANGED text

\* gcl::parse, line 24: the outermost parseValue returns to the caller.
ParseReturn ==
    /\ pc = "ret"
    /\ stack = <<>>
    /\ pc' = "done"
    /\ UNCHANGED <<text, tokenizer, stack, value, retval, output, raised,
                   exception, result>>

Next ==
    \/ Parse
    \/ ParseValue
    \/ ParseArrayEnter
    \/ ParseArrayNext
    \/ ParseDictEnter
    \/ ParseDictLoop
    \/ ParseDictNext
    \/ ParseReturn

Spec == Init /\ [][Next]_vars

\* ------------------------------------------------ the tokenizer on its own

\* Tokenizer::setText: a buffer and a length that does not exceed it are bound.
SetText ==
    /\ pc = "idle"
    /\ \E chars \in LayoutTexts \cup StringTexts \cup CommentTexts
                     \cup SignedTexts :
       \E length \in 0..Len(chars) :
           /\ text' = chars
           /\ tokenizer' = setText(tokenizer, chars, length)
    /\ pc' = "bound"
    /\ UNCHANGED <<stack, value, retval, output, raised, exception, result>>

\* The call r of Tokenizer::advance takes effect: pc is "token" when it
\* returned, and retval is what it returned; pc is "failed" when it threw.
Advances(r) ==
    /\ tokenizer' = r.t
    /\ pc' = IF r.exc.thrown THEN "failed" ELSE "token"
    /\ raised' = r.exc
    /\ IF r.exc.thrown
       THEN \E e \in IndeterminateErrorID :
                exception' = GclException(r.exc.errorID, r.exc.span, r.exc.info, e)
       ELSE exception' = NoThrow
    /\ retval' = IF r.exc.thrown THEN retval ELSE r.ok
    /\ UNCHANGED <<text, stack, value, output, result>>

\* Tokenizer::advance, a few times, also after the end of the text and
\* after a diagnostic.
Advance ==
    /\ pc \in {"bound", "token", "failed"}
    /\ tokenizer.calls < MaxAdvances
    /\ Advances(advance(tokenizer))

\* Tokenizer::reset, after the text was bound and after any call of advance.
\* raised and exception are what the last call threw: reset throws nothing,
\* and the exception of a call before it has been caught and is gone.
Reset ==
    /\ pc \in {"bound", "token", "failed"}
    /\ tokenizer' = reset(tokenizer)
    /\ pc' = "bound"
    /\ raised' = NoThrow
    /\ exception' = NoThrow
    /\ UNCHANGED <<text, stack, value, retval, output, result>>

NextTokenizer ==
    \/ SetText
    \/ Advance
    \/ Reset

SpecTokenizer == Init /\ [][NextTokenizer]_vars

\* ----------------------------------------------------- a Value on its own

\* One of the constructors of Value builds value.
Construct ==
    /\ pc = "idle"
    /\ \E v \in Values : value' = v
    /\ pc' = "constructed"
    /\ UNCHANGED <<text, tokenizer, stack, retval, output, raised, exception,
                   result>>

\* The accessor has been called on value and gave r.
Accessed(accessor, r) ==
    /\ pc = "constructed"
    /\ result' = [result EXCEPT ![accessor] = r]
    /\ UNCHANGED <<text, tokenizer, pc, stack, value, retval, output, raised,
                   exception>>

GetBool   == Accessed("getBool", getBool(value))
GetInt    == Accessed("getInt", getInt(value))
GetFloat  == Accessed("getFloat", getFloat(value))
GetString == Accessed("getString", getString(value))
GetArray  == Accessed("getArray", getArray(value))
GetDict   == Accessed("getDict", getDict(value))

\* The move m has been made: output is the destination, value the source.
Moved(m, p) ==
    /\ output' = m.this
    /\ value' = m.that
    /\ pc' = p
    /\ UNCHANGED <<text, tokenizer, stack, retval, raised, exception, result>>

\* `Value output(std::move(value));`
MoveConstructed ==
    /\ pc = "constructed"
    /\ Moved(MoveConstruct(value), "moveConstructed")

\* `output = std::move(value);` on an output that one of the constructors built.
MoveAssigned ==
    /\ pc = "constructed"
    /\ \E this \in DestinationValues :
           Moved(MoveAssign(this, value), "moveAssigned")

\* The assignment m has been made: output is the destination, value the
\* source.
Copied(m, p) ==
    /\ output' = m.this
    /\ value' = m.that
    /\ pc' = p
    /\ UNCHANGED <<text, tokenizer, stack, retval, raised, exception, result>>

\* `output = value;` on an output that one of the constructors built.
CopyAssigned ==
    /\ pc = "constructed"
    /\ \E this \in DestinationValues :
           Copied(CopyAssign(this, value), "copyAssigned")

\* `value = value;`: output is left alone.
CopyAssignedSelf ==
    /\ pc = "constructed"
    /\ \E w \in SelfAssigned(value, SelfAssignedValues) : value' = w
    /\ pc' = "selfAssigned"
    /\ UNCHANGED <<text, tokenizer, stack, retval, output, raised, exception,
                   result>>

\* `value.clear();` on a Value as it was constructed or as a move or an
\* assignment left it.
Clear ==
    /\ pc \in {"constructed", "moveConstructed", "moveAssigned", "copyAssigned",
               "selfAssigned"}
    /\ value' = clear(value)
    /\ pc' = "cleared"
    /\ UNCHANGED <<text, tokenizer, stack, retval, output, raised, exception,
                   result>>

NextValue ==
    \/ Construct
    \/ GetBool
    \/ GetInt
    \/ GetFloat
    \/ GetString
    \/ GetArray
    \/ GetDict
    \/ MoveConstructed
    \/ MoveAssigned
    \/ CopyAssigned
    \/ CopyAssignedSelf
    \/ Clear

SpecValue == Init /\ [][NextValue]_vars

\* ------------------------------------------------- reading a text by the grammar

\* The token the parser is looking at.
Token == tokenizer.m_token

\* The first token has just been read and nothing else has happened.
AtFirstToken == pc = "parseValue" /\ stack = <<>>

\* The parse has ended, by a return or by a diagnostic.
Ended == pc \in {"done", "thrown"}

\* The digit a character stands for, by the grammar's digit classes.
GrammarDigit(c) ==
    IF c >= 48 /\ c <= 57 THEN c - 48
    ELSE IF c >= 97 /\ c <= 102 THEN c - 87
    ELSE IF c >= 65 /\ c <= 70 THEN c - 55
    ELSE 99

GrammarAlnum(c) ==
    (c >= 48 /\ c <= 57) \/ (c >= 97 /\ c <= 122) \/ (c >= 65 /\ c <= 90)

IsDigitOf(c, base) == GrammarDigit(c) < base

\* The last index of the run of base digits that starts at i (i - 1 if none).
RECURSIVE RunEnd(_, _, _)
RunEnd(txt, i, base) ==
    IF i <= Len(txt) /\ IsDigitOf(txt[i], base) THEN RunEnd(txt, i + 1, base)
    ELSE i - 1

\* The numeric value of a digit run in a base.
RECURSIVE RunValue(_, _)
RunValue(run, base) ==
    IF run = <<>> THEN 0
    ELSE RunValue(SubSeq(run, 1, Len(run) - 1), base) * base
         + GrammarDigit(run[Len(run)])

\* The int production read at the start of a text: sign, base prefix (taken
\* when a digit of that base follows it), digit run.
IntLiteral(txt) ==
    LET signed == txt # <<>> /\ txt[1] \in {43, 45}
        i0     == IF signed THEN 2 ELSE 1
        pfx(letters, base) ==
            /\ i0 + 2 <= Len(txt)
            /\ txt[i0] = 48
            /\ txt[i0 + 1] \in letters
            /\ IsDigitOf(txt[i0 + 2], base)
        base   == IF pfx({98, 66}, 2) THEN 2
                  ELSE IF pfx({120, 88}, 16) THEN 16 ELSE 10
        from   == IF base = 10 THEN i0 ELSE i0 + 2
        to     == RunEnd(txt, from, base)
    IN  [ok |-> to >= from, neg |-> signed /\ txt[1] = 45, base |-> base,
         run |-> SubSeq(txt, from, to), to |-> to]

\* The literal is followed by the end of the text or by a character that is
\* not alphanumeric.
IntLiteralAlone(txt) ==
    LET L == IntLiteral(txt)
    IN  L.ok /\ (L.to = Len(txt) \/ ~GrammarAlnum(txt[L.to + 1]))

IntLiteralThenAlnum(txt) ==
    LET L == IntLiteral(txt)
    IN  L.ok /\ L.to < Len(txt) /\ GrammarAlnum(txt[L.to + 1])

\* The digit run is short enough for its value to be below 2^31, where
\* RunValue can be computed: 7 digits at most.
IntLiteralShort(txt) == Len(IntLiteral(txt).run) <= 7

\* The value the grammar gives the literal, as a machine word.
IntLiteralWord(txt) ==
    LET L == IntLiteral(txt)
        n == RunValue(L.run, L.base)
    IN  IF L.neg THEN WordFromInt(0 - n) ELSE WordFromInt(n)

\* Bracket depth before position i: opening minus closing brackets in txt[1..i-1].
Depth(txt, i) ==
    Cardinality({k \in 1..(i - 1) : txt[k] \in {91, 123}})
    - Cardinality({k \in 1..(i - 1) : txt[k] \in {93, 125}})

\* The positions of the characters c directly inside the outermost brackets.
InnerPositions(txt, c) == {k \in 1..Len(txt) : txt[k] = c /\ Depth(txt, k) = 1}

\* The text has neither strings nor comments, so its brackets, commas and
\* colons are tokens.
PlainText(txt) == \A k \in 1..Len(txt) : txt[k] \notin {34, 35}

\* A comma is directly followed (whitespace aside) by a closing bracket.
TrailingComma(txt) ==
    \E i \in 1..Len(txt), j \in 1..Len(txt) :
        /\ i < j
        /\ txt[i] = 44
        /\ txt[j] \in {93, 125}
        /\ \A k \in (i + 1)..(j - 1) : txt[k] \in {32, 9, 10}

\* The identifier that ends right before position i.
RECURSIVE IdentBefore(_, _)
IdentBefore(txt, i) ==
    IF i > 1 /\ (GrammarAlnum(txt[i - 1]) \/ txt[i - 1] = 95)
    THEN Append(IdentBefore(txt, i - 1), txt[i - 1])
    ELSE <<>>

\* The keys a dict literal defines: the identifiers before its colons.
TextKeys(txt) == {IdentBefore(txt, k) : k \in InnerPositions(txt, 58)}

\* The pieces of txt[from..to] between the positions of cuts, in order.
RECURSIVE SplitAt(_, _, _, _)
SplitAt(txt, from, to, cuts) ==
    IF cuts = {} THEN <<SubSeq(txt, from, to)>>
    ELSE LET c == CHOOSE x \in cuts : \A y \in cuts : x <= y
         IN  <<SubSeq(txt, from, c - 1)>> \o SplitAt(txt, c + 1, to, cuts \ {c})

\* The element texts of an array literal `[e1,...,en]`.
TextElems(txt) == SplitAt(txt, 2, Len(txt) - 1, InnerPositions(txt, 44))

\* The Value each element text of Elems denotes.
ElemValue(e) ==
    CASE e = <<49>>   -> ValueInt(WordFromInt(1))
      [] e = <<50>>   -> ValueInt(WordFromInt(2))
      [] e = IdTrue   -> ValueBool(TRUE)
      [] e = IdNull   -> ValueNull
      [] e = <<34, 115, 34>> -> ValueString(<<115>>)
      [] e = <<91, 50, 93>>  -> ValueArray(<<ValueInt(WordFromInt(2))>>)
      [] e = <<123, 97, 58, 49, 125>> ->
             ValueDict(<<[key |-> <<97>>, value |-> ValueInt(WordFromInt(1))]>>)

\* txt is `[e1,...,en]`, n >= 1, every ei one of Elems.
ArrayLiteral(txt) ==
    /\ Len(txt) >= 3
    /\ txt[1] = 91
    /\ txt[Len(txt)] = 93
    /\ Depth(txt, Len(txt)) = 1
    /\ \A k \in 2..(Len(txt) - 1) : Depth(txt, k) >= 1
    /\ \A i \in 1..Len(TextElems(txt)) : TextElems(txt)[i] \in Elems

DictSorted(dict) ==
    \A k \in 1..(Len(dict) - 1) : StringLess(dict[k].key, dict[k + 1].key)

CanStartValue(token) ==
    \/ IsPunctuaction(token, "Lbrace")
    \/ IsPunctuaction(token, "Lsqb")
    \/ token.kind \in {"String", "Int"}
    \/ token.kind = "Identifier" /\ token.identifier \in {IdTrue, IdFalse, IdNull}

\* ------------------------------------------------------------- the claims

\* C1: parse of the text `[]` succeeds and produces an Array Value with zero
\* elements.
C1_EmptyArrayLiteral ==
    (text = <<91, 93>> /\ Ended) =>
        /\ pc = "done"
        /\ retval
        /\ output.type = "Array"
        /\ Len(output.array) = 0

\* C1, what the code does: `[]` parses to an Array holding one Undefined Value.
C1_Reached ==
    /\ text = <<91, 93>>
    /\ pc = "done"
    /\ retval
    /\ output = ValueArray(<<ValueNew>>)

\* C2: parseValue returns false, without raising, whenever the current token
\* cannot start a value (`}`, `]`, `,`, `:`, Eof, any identifier other than
\* true / false / null).
C2_NoValueReturnsFalse ==
    [][(pc = "parseValue" /\ ~CanStartValue(Token)) =>
           (pc' = "ret" /\ retval' = FALSE /\ ~raised'.thrown)]_vars

\* C2, what the code does: on a punctuation token other than `{` and `[`
\* parseValue returns true, leaves its output untouched and consumes nothing.
C2_Reached ==
    /\ pc = "ret"
    /\ retval
    /\ value = ValueNew
    /\ Token.kind = "Punctuaction"
    /\ Token.punctuaction \in {"Rbrace", "Rsqb", "Comma", "Colon"}

\* C3: when a dict literal defines the same key twice, parse fails with a
\* diagnostic whose kind is KeyAlreadyDefined and whose message names the key;
\* the first definition stays.
C3_DuplicateKey ==
    [][(/\ pc = "ret"
        /\ stack # <<>>
        /\ Top(stack).kind = "Dict"
        /\ retval
        /\ Top(stack).identifier \in DictKeys(Top(stack).dict)) =>
           (/\ pc' = "thrown"
            /\ raised'.errorID = "KeyAlreadyDefined"
            /\ raised'.info.args = <<Top(stack).identifier>>
            /\ output'.dict = stack[1].dict)]_vars

\* C3, what the code does: the duplicate is refused and named, under the kind
\* ExpectedPunctuaction.
C3_Reached ==
    /\ pc = "thrown"
    /\ raised.errorID = "ExpectedPunctuaction"
    /\ raised.info = [fmt |-> "key '{}' already defined", args |-> <<<<97>>>>]
    /\ text = <<123, 97, 58, 49, 44, 97, 58, 50, 125>>
    /\ output = ValueDict(<<[key |-> <<97>>, value |-> ValueInt(WordFromInt(1))]>>)

\* C4: every diagnostic carries, as fields of the failure, the error kind, the
\* span and the message given at the raise site.
C4_DiagnosticCarriesArguments ==
    pc = "thrown" =>
        /\ exception.errorID = raised.errorID
        /\ exception.span = raised.span
        /\ exception.info = raised.info

\* C4, what the code does keep: the span and the message.
C4_SpanAndInfoCarried ==
    pc = "thrown" => (exception.span = raised.span /\ exception.info = raised.info)

\* C5: a trailing comma directly before the closing `}` or `]` is not accepted.
C5_NoTrailingComma ==
    (PlainText(text) /\ TrailingComma(text)) =>
        ~(pc = "done" /\ retval /\ Token.kind = "Eof")

\* C5, what the code does: `{a:1,}` parses to the Dict of a.
C5_Reached ==
    /\ text = <<123, 97, 58, 49, 44, 125>>
    /\ pc = "done"
    /\ retval
    /\ output = ValueDict(<<[key |-> <<97>>, value |-> ValueInt(WordFromInt(1))]>>)

\* C6: after a successful parse of a dict literal with pairwise distinct keys
\* the Dict holds exactly those keys, each once, and traversal visits them in
\* ascending lexicographic order, whatever their order in the text.
C6_DictKeySorted ==
    (pc = "ret" /\ retval /\ value.type = "Dict") =>
        /\ DictSorted(value.dict)
        /\ (stack = <<>> /\ Token.kind = "Eof" /\ PlainText(text)) =>
               /\ DictKeys(value.dict) = TextKeys(text)
               /\ Len(value.dict) = Cardinality(InnerPositions(text, 58))

\* C6 witness: `{b:2,ab:1,a:1}` has been parsed, keys out of order in the text.
C6_Witness ==
    /\ pc = "ret"
    /\ retval
    /\ stack = <<>>
    /\ text = <<123, 98, 58, 50, 44, 97, 98, 58, 49, 44, 97, 58, 49, 125>>
    /\ value = ValueDict(<<[key |-> <<97>>, value |-> ValueInt(WordFromInt(1))],
                           [key |-> <<97, 98>>, value |-> ValueInt(WordFromInt(1))],
                           [key |-> <<98>>, value |-> ValueInt(WordFromInt(2))]>>)

\* C7: for an array literal `[v1,...,vn]`, n >= 1, parse produces an Array of
\* exactly n elements, element i being the Value of vi, in source order.
C7_ArrayInSourceOrder ==
    (ArrayLiteral(text) /\ Ended) =>
        /\ pc = "done"
        /\ retval
        /\ output = ValueArray([i \in 1..Len(TextElems(text)) |->
                                   ElemValue(TextElems(text)[i])])

\* C7 witness: `[2,{a:1},1]` has been parsed into its three elements.
C7_Witness ==
    /\ pc = "done"
    /\ text = <<91, 50, 44, 123, 97, 58, 49, 125, 44, 49, 93>>
    /\ Len(output.array) = 3
    /\ output.array[1] = ValueInt(WordFromInt(2))
    /\ output.array[2].type = "Dict"
    /\ output.array[3] = ValueInt(WordFromInt(1))

\* C8: for an integer literal of an optional sign, an optional 0b / 0x prefix
\* and a non-empty run of digits valid for the base, the Int produced is the
\* value of the run in that base, negated under `-` (within the machine word).
C8_IntLiteralValue ==
    [][(pc = "idle" /\ pc' # "idle" /\ IntLiteralAlone(text')
           /\ IntLiteralShort(text')) =>
           (/\ pc' = "parseValue"
            /\ Token'.kind = "Int"
            /\ Token'.i = IntLiteralWord(text'))]_vars

\* C8 witness: `-0x1F` has been read as the Int -31.
C8_Witness ==
    /\ AtFirstToken
    /\ text = <<45, 48, 120, 49, 70>>
    /\ Token.kind = "Int"
    /\ Token.i = WordFromInt(0 - 31)

\* C9: for every number literal, one starting with `0` included, an
\* alphanumeric character right after the digit run raises InvalidDigit.
C9_TrailingAlnumInvalidDigit ==
    (pc # "idle" /\ IntLiteralThenAlnum(text)) =>
        (pc = "thrown" /\ raised.errorID = "InvalidDigit")

\* C9, what the code does: after a leading `0` a letter other than b, B, x, X
\* ends the token, `0a` is the Int 0 followed by the identifier a.
C9_Reached ==
    /\ AtFirstToken
    /\ text = <<48, 97>>
    /\ Token.kind = "Int"
    /\ Token.i = WordZero

\* C10: a `+` or `-` that is not followed by at least one digit never yields
\* an Int token.
C10_SignNeedsDigit ==
    (/\ text # <<>>
     /\ text[1] \in {43, 45}
     /\ (Len(text) = 1 \/ ~IsDigitOf(text[2], 10))) =>
        ~(AtFirstToken /\ Token.kind = "Int")

\* C10, what the code does: `-` alone is read as the Int 48.
C10_Reached ==
    /\ AtFirstToken
    /\ text = <<45>>
    /\ Token.kind = "Int"
    /\ Token.i = WordFromInt(48)

\* ------------------------------------------------- string literals by the grammar

\* The character an escape letter stands for: n, t, backslash, double quote.
Escapes == {110, 116, 92, 34}
Unescaped(c) == IF c = 110 THEN 10 ELSE IF c = 116 THEN 9 ELSE c

\* A string literal read from position i of txt on, content being what was
\* read so far.  how is "closed" at the closing quote (next is the position
\* after it), "newline" at a raw newline, "end of input" when the text ends
\* first, "end of input after backslash" when it ends right after a
\* backslash, "escaped newline" and "invalid escape" at a backslash followed
\* by a newline or by a character that is no escape letter.
RECURSIVE LiteralScan(_, _, _)
LiteralScan(txt, i, content) ==
    IF i > Len(txt) THEN [how |-> "end of input", content |-> content, next |-> i]
    ELSE IF txt[i] = 34 THEN [how |-> "closed", content |-> content, next |-> i + 1]
    ELSE IF txt[i] = 10 THEN [how |-> "newline", content |-> content, next |-> i]
    ELSE IF txt[i] = 92
    THEN IF i + 1 > Len(txt)
         THEN [how |-> "end of input after backslash", content |-> content,
               next |-> i + 1]
         ELSE IF txt[i + 1] \in Escapes
         THEN LiteralScan(txt, i + 2, Append(content, Unescaped(txt[i + 1])))
         ELSE IF txt[i + 1] = 10
         THEN [how |-> "escaped newline", content |-> content, next |-> i + 1]
         ELSE [how |-> "invalid escape", content |-> content, next |-> i + 1]
    ELSE LiteralScan(txt, i + 1, Append(content, txt[i]))

\* The text begins with a string literal; how it goes.
StringLiteral(txt) == Len(txt) >= 1 /\ txt[1] = 34
Literal(txt) == LiteralScan(txt, 2, <<>>)

\* The ways a literal goes in which a raw newline or the end of the input
\* comes before the closing quote.
UnterminatedHow == {"newline", "end of input", "end of input after backslash"}

\* C11: a string literal in which a raw newline or the end of the input comes
\* before the closing quote raises ExpectedStringEnd (the kind the tokenizer
\* gives at the raise site is the one looked at).
C11_UnterminatedString ==
    (pc # "idle" /\ StringLiteral(text) /\ Literal(text).how \in UnterminatedHow) =>
        (pc = "thrown" /\ raised.errorID = "ExpectedStringEnd")

\* C11, what the code does: in `"a\` the input ends right after the
\* backslash and the tokenizer raises InvalidEscape.
C11_Reached ==
    /\ pc = "thrown"
    /\ text = <<34, 97, 92>>
    /\ raised.errorID = "InvalidEscape"

\* C11, the rest of the cases: when the newline or the end of the input does
\* not come right after a backslash, the kind given is ExpectedStringEnd.
C11_UnterminatedUnescaped ==
    (pc # "idle" /\ StringLiteral(text)
                 /\ Literal(text).how \in {"newline", "end of input"}) =>
        (pc = "thrown" /\ raised.errorID = "ExpectedStringEnd")

\* The first token of the text has just been read, or reading it has thrown.
FirstAdvance == pc = "idle" /\ pc' # "idle"

\* C12: the String token of a terminated literal holds the literal's content
\* with the escapes n, t, backslash and double quote replaced and every other
\* character copied in order; a backslash followed by any other character
\* raises a diagnostic of kind InvalidEscape.
C12_StringContent ==
    [][(FirstAdvance /\ StringLiteral(text')) =>
           /\ Literal(text').how = "closed" =>
                  /\ pc' = "parseValue"
                  /\ Token'.kind = "String"
                  /\ Token'.string = Literal(text').content
           /\ Literal(text').how \in {"invalid escape", "escaped newline"} =>
                  /\ pc' = "thrown"
                  /\ exception'.errorID = "InvalidEscape"]_vars

\* C12, what the code does: `"\a` has raised a diagnostic that was given the
\* kind InvalidEscape and does not hold it.
C12_Reached ==
    /\ pc = "thrown"
    /\ text = <<34, 92, 97>>
    /\ raised.errorID = "InvalidEscape"
    /\ exception.errorID = "ExpectedIdentifier"

\* C12, the part the tokenizer decides: the content of the String token, and
\* the kind InvalidEscape at the raise site.
C12_StringContentAtRaiseSite ==
    [][(FirstAdvance /\ StringLiteral(text')) =>
           /\ Literal(text').how = "closed" =>
                  /\ pc' = "parseValue"
                  /\ Token'.kind = "String"
                  /\ Token'.string = Literal(text').content
           /\ Literal(text').how \in {"invalid escape", "escaped newline"} =>
                  /\ pc' = "thrown"
                  /\ raised'.errorID = "InvalidEscape"]_vars

\* C12_StringContentAtRaiseSite has its case: the literal of the five
\* characters " a \ n " has been read as the String a, LF.
C12_Decoded ==
    /\ AtFirstToken
    /\ text = <<34, 97, 92, 110, 34>>
    /\ Token.kind = "String"
    /\ Token.string = <<97, 10>>

\* C13: whatever buffer and length are bound and however many times advance
\* is called, every buffer position the tokenizer has read is below the length.
C13_ReadsBelowLength ==
    \A index \in tokenizer.reads : index < tokenizer.m_length

\* C13 witness: of a buffer of four characters three were bound, advance has
\* been called up to the Eof token and the positions 0, 1, 2 have been read.
C13_Witness ==
    /\ pc = "token"
    /\ Len(text) = 4
    /\ tokenizer.m_length = 3
    /\ Token.kind = "Eof"
    /\ tokenizer.reads = {0, 1, 2}

\* C14: parsing a buffer of length 0 reads no buffer position, the first
\* advance gives the Eof token, and parse returns false without a diagnostic.
C14_EmptyBuffer ==
    (pc # "idle" /\ tokenizer.m_length = 0) =>
        /\ tokenizer.reads = {}
        /\ Token.kind = "Eof"
        /\ pc \in {"parseValue", "ret", "done"}
        /\ raised = NoThrow
        /\ exception = NoThrow
        /\ pc \in {"ret", "done"} => ~retval

\* C14 witness: parse of the empty buffer has returned false.
C14_Witness ==
    /\ pc = "done"
    /\ text = <<>>
    /\ tokenizer.m_length = 0
    /\ ~retval
    /\ output = ValueNew

\* C15: parse does not look at what follows the document: a text that begins
\* with one complete value makes parse return true without a diagnostic,
\* whatever follows the value.
C15_TrailingTextIgnored ==
    (Ended /\ text \in DocumentTexts) =>
        (pc = "done" /\ retval /\ raised = NoThrow)

\* C15, what the code does: after the value of `1 @` the next token is read,
\* and reading it raises UnknownChar.
C15_Reached ==
    /\ pc = "thrown"
    /\ text = <<49, 32, 64>>
    /\ raised.errorID = "UnknownChar"

\* C15, the rest of the cases: when what follows the value begins with a
\* token the tokenizer can read, parse returns true.
C15_TrailingTokenIgnored ==
    (Ended /\ \E v \in DocumentValues :
                  \E tl \in {<<Ascii.one>>, <<Ascii.rsqb>>, <<Ascii.rbrace>>,
                             <<Ascii.comma>>, <<Ascii.a>>, <<Ascii.lsqb>>} :
                      text = v \o <<Ascii.space>> \o tl) =>
        (pc = "done" /\ retval /\ raised = NoThrow)

\* A dict pair or an array element has just been parsed: the parseValue call
\* of the innermost parseArray / parseDict has returned true.
AfterElement == pc = "ret" /\ stack # <<>> /\ retval

\* The bracket that closes the container of the frame.
Closing(frame) == IF frame.kind = "Array" THEN "Rsqb" ELSE "Rbrace"

\* The token after the element is neither `,` nor the matching closing bracket.
NoSeparator ==
    /\ AfterElement
    /\ ~IsPunctuaction(Token, "Comma")
    /\ ~IsPunctuaction(Token, Closing(Top(stack)))

\* C16: when the token after a dict pair or an array element is neither `,`
\* nor the matching closing bracket (the end of the input included), parse
\* fails with a diagnostic of kind ExpectedPunctuaction.
C16_SeparatorExpected ==
    [][NoSeparator =>
           (pc' = "thrown" /\ exception'.errorID = "ExpectedPunctuaction")]_vars

\* C16, what the code does: `{a:1` has raised a diagnostic at the Eof token
\* that was given the kind ExpectedPunctuaction and does not hold it.
C16_Reached ==
    /\ pc = "thrown"
    /\ text = <<123, 97, 58, 49>>
    /\ Token.kind = "Eof"
    /\ raised.errorID = "ExpectedPunctuaction"
    /\ exception.errorID = "ExpectedIdentifier"

\* C16, the part the parser decides: the kind at the raise site is
\* ExpectedPunctuaction.
C16_SeparatorExpectedAtRaiseSite ==
    [][NoSeparator =>
           (pc' = "thrown" /\ raised'.errorID = "ExpectedPunctuaction")]_vars

\* C16_SeparatorExpectedAtRaiseSite has its case in an array too: `[1 a` has
\* thrown at the identifier a.
C16_ArrayCase ==
    /\ pc = "thrown"
    /\ text = <<91, 49, 32, 97>>
    /\ Token.kind = "Identifier"
    /\ raised.errorID = "ExpectedPunctuaction"

\* Every typed accessor has been called on value.
AllAccessed == pc = "constructed" /\ \A a \in Accessors : result[a].called

\* The accessors that succeeded.
Succeeded == {a \in Accessors : result[a].ok}

\* The accessor threw its type-mismatch error.
TypeMismatch(a) ==
    /\ ~result[a].ok
    /\ result[a].what \in {"Value::getBool() -> type mismatch",
                           "Value::getInt() -> type mismatch",
                           "Value::getFloat() -> type mismatch",
                           "Value::getString() -> type mismatch",
                           "Value::getArray() -> type mismatch",
                           "Value::getDict() -> type mismatch"}

\* C17: for a Value of any of the eight types, exactly one of getBool,
\* getInt, getFloat, getString, getArray, getDict succeeds and each of the
\* other five fails with a type-mismatch error.
C17_ExactlyOneAccessor ==
    AllAccessed =>
        /\ Cardinality(Succeeded) = 1
        /\ \A a \in Accessors \ Succeeded : TypeMismatch(a)

\* C17, what the code does: on the Null Value all six accessors have failed.
C17_Reached ==
    /\ AllAccessed
    /\ value = ValueNull
    /\ Succeeded = {}

\* C17, the rest of the cases: a Value of a type other than Undefined and
\* Null has exactly one accessor that succeeds, the one of its type, and it
\* gives the data; on Undefined and Null all six fail with a type mismatch.
C17_AccessorOfTheType ==
    AllAccessed =>
        /\ Succeeded = IF value.type \in {"Undefined", "Null"} THEN {}
                       ELSE {"get" \o value.type}
        /\ \A a \in Accessors \ Succeeded : TypeMismatch(a)
        /\ value.type = "Bool" => result["getBool"].data = value.b
        /\ value.type = "Int" => result["getInt"].data = value.i
        /\ value.type = "Float" => result["getFloat"].data = value.f
        /\ value.type = "String" => result["getString"].data = value.string
        /\ value.type = "Array" => result["getArray"].data = value.array
        /\ value.type = "Dict" => result["getDict"].data = value.dict

\* What a Value holds: the member of its type, nothing for Undefined and Null.
Contents(v) ==
    CASE v.type = "Bool"   -> v.b
      [] v.type = "Int"    -> v.i
      [] v.type = "Float"  -> v.f
      [] v.type = "String" -> v.string
      [] v.type = "Array"  -> v.array
      [] v.type = "Dict"   -> v.dict
      [] OTHER             -> <<>>

\* A move construction or a move assignment from value to output is made.
MoveStep == pc = "constructed" /\ pc' \in {"moveConstructed", "moveAssigned"}

\* C18: a move construction or move assignment from another Value gives the
\* destination the type and the contents the source had and leaves the
\* source Undefined, whatever the type of the source.
C18_MoveTransfers ==
    [][MoveStep =>
           /\ output'.type = value.type
           /\ Contents(output') = Contents(value)
           /\ value'.type = "Undefined"]_vars

\* C18 witness: the Array of the Int 7 and the String a has been move
\* assigned to an output that held something else.
C18_Witness ==
    /\ pc = "moveAssigned"
    /\ output = ValueArray(<<ValueInt(WordFromInt(7)), ValueString(<<97>>)>>)
    /\ value.type = "Undefined"
    /\ value.array = <<>>

\* C18 witness of the move constructor: a Dict has been moved out of value.
C18_Constructed ==
    /\ pc = "moveConstructed"
    /\ output.type = "Dict"
    /\ Len(output.dict) = 2
    /\ value.type = "Undefined"

\* ------------------------------------------------------ positions in the text

\* The line (from 1) of the character at the 0-based position index of txt:
\* 1 plus the number of newlines before it.
LineOf(txt, index) == 1 + Cardinality({k \in 1..index : txt[k] = 10})

\* The 0-based position at which the line of that character starts.
LineStart(txt, index) ==
    IF \E k \in 1..index : txt[k] = 10
    THEN CHOOSE k \in 1..index : txt[k] = 10 /\ \A j \in (k + 1)..index : txt[j] # 10
    ELSE 0

\* The column (from 0) of that character: its offset within its line.
ColumnOf(txt, index) == index - LineStart(txt, index)

\* advance has returned a token that has a first character.
TokenProduced == pc = "token" /\ Token.kind # "Eof"

\* C19: the span of every token advance produces begins at the line that is
\* 1 plus the number of newlines before the token's first character, and at
\* the column that is the offset of that character within its line.
C19_SpanBegin ==
    TokenProduced =>
        /\ Token.span.beginLineNumber = LineOf(text, tokenizer.tokenIndex)
        /\ Token.span.beginColumnNumber = ColumnOf(text, tokenizer.tokenIndex)

\* C19, what the code does: in the text of a newline and an a, the token a,
\* first of line 2, has been given line 1 and column 1.
C19_Reached ==
    /\ TokenProduced
    /\ text = <<10, 97>>
    /\ tokenizer.m_length = 2
    /\ tokenizer.tokenIndex = 1
    /\ Token.span.beginLineNumber = 1
    /\ Token.span.beginColumnNumber = 1

\* C19, the rest of the cases: with no newline before the token's first
\* character the span begins at line 1 and at the character's position.
C19_SpanBeginFirstLine ==
    (TokenProduced /\ LineOf(text, tokenizer.tokenIndex) = 1) =>
        /\ Token.span.beginLineNumber = 1
        /\ Token.span.beginColumnNumber = tokenizer.tokenIndex

\* C19, what the code gives after a newline: a newline that is not the first
\* character of the text is counted, and the characters of its line then have
\* columns from 1.
C19_SpanBeginLaterLine ==
    (TokenProduced /\ LineOf(text, tokenizer.tokenIndex) > 1 /\ text[1] # 10) =>
        /\ Token.span.beginLineNumber = LineOf(text, tokenizer.tokenIndex)
        /\ Token.span.beginColumnNumber = ColumnOf(text, tokenizer.tokenIndex) + 1

\* The input: the characters of the buffer the tokenizer was bound to.
Input == SubSeq(text, 1, tokenizer.m_length)

\* The number of lines of a text: one, and one more after every newline.
NumLines(txt) == 1 + Cardinality({k \in 1..Len(txt) : txt[k] = 10})

\* The line and the column lie within the text.
WithinText(txt, line, column) ==
    /\ line >= 1
    /\ line <= NumLines(txt)
    /\ column >= 0
    /\ column <= Len(txt)

\* C20: the span of every diagnostic raised lies within the input: its line
\* numbers are between 1 and the number of lines of the input and its column
\* numbers do not exceed the length of the input.
C20_SpanWithinInput ==
    exception.thrown =>
        /\ WithinText(Input, exception.span.beginLineNumber,
                      exception.span.beginColumnNumber)
        /\ WithinText(Input, exception.span.endLineNumber,
                      exception.span.endColumnNumber)

\* C20 witness: `[1` newline `a` has raised a diagnostic at the a of line 2.
C20_Witness ==
    /\ pc = "thrown"
    /\ text = <<91, 49, 10, 97>>
    /\ exception.thrown
    /\ exception.span.beginLineNumber = 2
    /\ exception.span.endLineNumber = 2

\* ------------------------------------------------------------ termination

\* A handler is enabled by its pc alone and Apply always yields a next state,
\* so that a step of Next can be taken exactly when no return and no throw
\* has ended the call.
Running == ~Ended

\* gcl::parse runs on: a call goes on until it returns or throws.  This is
\* weak fairness of Next, []<>~ENABLED <<Next>>_vars \/ []<><<Next>>_vars, with
\* ENABLED <<Next>>_vars written out as Running and a step of Next that
\* changes vars as a step that changes vars, which under [][Next]_vars is the
\* same.
Fair == []<>~Running \/ []<><<TRUE>>_vars

SpecLive == Init /\ [][Next]_vars /\ Fair

\* What is left of the input for advance to consume: the characters from
\* the cursor on, counted twice, and the token in hand when it is not Eof.
Remaining(t) ==
    2 * (IF t.m_char = Ascii.nul THEN 0 ELSE t.m_length - t.m_index)
    + (IF t.m_token.kind = "Eof" THEN 0 ELSE 1)

\* How far a handler is from the next call of advance or from the end.
PcRank ==
    [p \in {"idle", "parseValue", "parseArray", "parseDict", "dictLoop",
            "ret", "done", "thrown"} |->
        CASE p = "parseValue" -> 3
          [] p \in {"parseArray", "parseDict", "dictLoop"} -> 2
          [] p = "ret" -> 1
          [] OTHER -> 0]

\* The variant of a running parse: the input left, then the handler.
Rank == IF Ended THEN 0 ELSE 4 * Remaining(tokenizer) + PcRank[pc]

\* A pass through the loop of parseArray or parseDict goes back to its head.
LoopsBack == pc = "ret" /\ pc' \in {"parseValue", "dictLoop"}

\* C21: a parse of any input ends, by a return or by a diagnostic; after a
\* diagnostic nothing more happens and no token is consumed; every step of a
\* parse that has started lowers the variant; every pass through a loop of
\* the parser, and every advance that returns, leaves less of the input.
C21_Terminates ==
    /\ <>Ended
    /\ [][pc = "thrown" => UNCHANGED vars]_vars
    /\ [][pc' = "thrown" => (pc # "thrown" /\ raised'.thrown /\ ~raised.thrown)]_vars
    /\ [][pc # "idle" => (pc' # "idle" /\ Rank' < Rank)]_vars
    /\ [][LoopsBack => Remaining(tokenizer') < Remaining(tokenizer)]_vars
    /\ [][(pc \notin {"idle", "thrown"} /\ pc' # "thrown"
              /\ tokenizer' # tokenizer) =>
              Remaining(tokenizer') < Remaining(tokenizer)]_vars

\* C21 witness: the parse of `[1,{a:1},1` has gone through the loops of an
\* array and a dict and has ended with a diagnostic at the end of the input.
C21_Witness ==
    /\ pc = "thrown"
    /\ text = <<91, 49, 44, 123, 97, 58, 49, 125, 44, 49>>
    /\ Token.kind = "Eof"
    /\ raised.thrown

\* ------------------------------------------------- comments and whitespace

\* The text without its comments: outside a string, a # and what follows it
\* up to the end of the line are left out, the newline is kept.  mode is
\* "text", "string" (after an opening quote) or "comment".
RECURSIVE StripFrom(_, _, _)
StripFrom(chars, i, mode) ==
    IF i > Len(chars) THEN <<>>
    ELSE IF mode = "comment"
    THEN IF chars[i] = 10 THEN <<10>> \o StripFrom(chars, i + 1, "text")
         ELSE StripFrom(chars, i + 1, "comment")
    ELSE IF mode = "string"
    THEN IF chars[i] = 92
         THEN SubSeq(chars, i, IF i < Len(chars) THEN i + 1 ELSE i)
              \o StripFrom(chars, i + 2, "string")
         ELSE <<chars[i]>>
              \o StripFrom(chars, i + 1, IF chars[i] = 34 THEN "text" ELSE "string")
    ELSE IF chars[i] = 35 THEN StripFrom(chars, i + 1, "comment")
    ELSE <<chars[i]>>
         \o StripFrom(chars, i + 1, IF chars[i] = 34 THEN "string" ELSE "text")

Strip(chars) == StripFrom(chars, 1, "text")

\* The outcome of the k-th call of advance on the tokenizer t.
RECURSIVE NthAdvance(_, _)
NthAdvance(t, k) ==
    IF k <= 1 THEN advance(t) ELSE NthAdvance(advance(t).t, k - 1)

\* The k-th call of advance on the part of the text that is bound, without
\* its comments.
Stripped == Strip(SubSeq(text, 1, tokenizer.m_length))
OnStripped(stripped, k) ==
    NthAdvance(setText(TokenizerNew, stripped, Len(stripped)), k)

\* A token without its span.
Payload(token) == [token EXCEPT !.span = SpanZero]

SameOutcome(r) ==
    /\ (pc = "failed") = r.exc.thrown
    /\ pc = "failed" => raised.errorID = r.exc.errorID
    /\ pc = "token" => Payload(Token) = Payload(r.t.m_token)
    /\ pc = "token" => retval = r.ok

\* C22: the k-th call of advance on a text produces the kind and the payload
\* (or the diagnostic) that the k-th call produces on the text without its
\* comments, and a call that returns has produced one token and has returned
\* true exactly when the token is not Eof.
C22_CommentsTransparent ==
    pc \in {"token", "failed"} =>
        /\ SameOutcome(OnStripped(Stripped, tokenizer.calls))
        /\ pc = "token" => Token.kind \in TokenKind
        /\ pc = "token" => retval = (Token.kind # "Eof")

\* The case where it fails: of `-#` the first call has produced Int 13, the
\* # taken as the digit after the sign (readNumber reads its first digit
\* unchecked), while of `-`, the text without the comment, the first call
\* produces Int 48.
C22_Reached ==
    /\ pc = "token"
    /\ text = <<Ascii.minus, Ascii.hash>>
    /\ tokenizer.m_length = 2
    /\ tokenizer.calls = 1
    /\ Token.kind = "Int"
    /\ Token.i = WordFromInt(13)
    /\ Stripped = <<Ascii.minus>>
    /\ OnStripped(Stripped, 1).t.m_token.kind = "Int"
    /\ OnStripped(Stripped, 1).t.m_token.i = WordFromInt(48)

\* No sign stands in the part of the text that is bound.
Unsigned ==
    \A i \in 1..tokenizer.m_length : text[i] \notin {Ascii.plus, Ascii.minus}

\* No call of advance before the last one has thrown: after a diagnostic
\* the cursor stands inside the token that failed.
NoEarlierDiagnostic ==
    \A j \in 1..(tokenizer.calls - 1) :
        ~NthAdvance(setText(TokenizerNew, text, tokenizer.m_length), j).exc.thrown

\* On a text without a sign, up to its first diagnostic, the outcomes are the
\* same with and without the comments: the failure above needs the unchecked
\* digit after a sign.
C22_TransparentUnsigned ==
    (pc \in {"token", "failed"} /\ Unsigned /\ NoEarlierDiagnostic) =>
        /\ SameOutcome(OnStripped(Stripped, tokenizer.calls))
        /\ pc = "token" => Token.kind \in TokenKind
        /\ pc = "token" => retval = (Token.kind # "Eof")

\* Of `"#"#"` and a newline, the string # and then Eof have been produced:
\* the # of the string is kept, the comment with its quote is skipped.
C22_Witness ==
    /\ pc = "token"
    /\ text = <<34, 35, 34, 35, 34, 10>>
    /\ tokenizer.m_length = 6
    /\ tokenizer.calls = 2
    /\ Token.kind = "Eof"
    /\ ~retval
    /\ Stripped = <<34, 35, 34, 10>>
    /\ OnStripped(Stripped, 1).t.m_token.string = <<35>>

\* ------------------------------------------------------- the end of a text

\* A call of advance has returned false with the token Eof.
EofProduced == pc = "token" /\ Token.kind = "Eof" /\ ~retval

\* One more call of advance is made.
AdvanceCalled == tokenizer'.calls = tokenizer.calls + 1

\* C27: once a call of advance has produced Eof and returned false, the next
\* call (and so every later call) produces Eof and returns false as well and
\* leaves the cursor index, the line and the column as they were.
C27_EofAbsorbing ==
    [][(EofProduced /\ AdvanceCalled) =>
           /\ EofProduced'
           /\ tokenizer'.m_index = tokenizer.m_index
           /\ tokenizer'.m_lineNumber = tokenizer.m_lineNumber
           /\ tokenizer'.m_columNumber = tokenizer.m_columNumber]_vars

\* C27 witness: of `a`, a newline and `1`, the third call of advance has
\* produced Eof, and the fourth call has produced it again; the cursor is
\* where the third call left it.
C27_Witness ==
    /\ EofProduced
    /\ text = <<97, 10, 49>>
    /\ tokenizer.m_length = 3
    /\ tokenizer.calls = 4
    /\ tokenizer.m_index = 2
    /\ tokenizer.m_lineNumber = 2
    /\ tokenizer.m_columNumber = 1
    /\ NthAdvance(setText(TokenizerNew, text, 3), 3).t.m_token.kind = "Eof"
    /\ NthAdvance(setText(TokenizerNew, text, 3), 2).t.m_token.kind = "Int"

\* ------------------------------------------------- literals above the word

\* 2^64 - w modulo 2^64, limb by limb: the limbs below the lowest limb that
\* is not 0 stay 0, that limb is taken from 65536, those above from 65535.
LowestLimb(w) == CHOOSE k \in 1..4 : w[k] # 0 /\ \A j \in 1..(k - 1) : w[j] = 0

Complement(w) ==
    IF \A k \in 1..4 : w[k] = 0 THEN w
    ELSE [k \in 1..4 |->
             IF k < LowestLimb(w) THEN 0
             ELSE IF k = LowestLimb(w) THEN 65536 - w[k]
             ELSE 65535 - w[k]]

\* The Int of a literal: its magnitude modulo 2^64, negated modulo 2^64
\* after the sign -.
LiteralInt(lit) ==
    IF lit.sign = <<45>> THEN Complement(lit.word) ELSE lit.word

\* C23: an integer literal above the machine word is accepted without a
\* diagnostic, and the Int produced is its magnitude modulo 2^64, negated
\* modulo 2^64 when the sign is -.
C23_WrapsSilently ==
    \A lit \in BigLiterals :
        (Ended /\ text = lit.sign \o lit.digits) =>
            /\ pc = "done"
            /\ retval
            /\ ~raised.thrown
            /\ output = ValueInt(LiteralInt(lit))

\* C23 witness: -0x1f8000000000000000 has been parsed: the magnitude is
\* 0x8000000000000000 modulo 2^64, and its negation is itself.
C23_Witness ==
    /\ pc = "done"
    /\ retval
    /\ text = <<45, 48, 120, 49, 102, 56>> \o Repeat(<<48>>, 15)
    /\ output = ValueInt(<<0, 0, 0, 32768>>)
    /\ \E lit \in BigLiterals : text = lit.sign \o lit.digits

\* ------------------------------------------------------ the reserved words

\* The three words as the grammar spells them.
SpelledTrue  == <<116, 114, 117, 101>>
SpelledFalse == <<102, 97, 108, 115, 101>>
SpelledNull  == <<110, 117, 108, 108>>

\* parseValue is entered on an identifier.
OnIdentifier == pc = "parseValue" /\ Token.kind = "Identifier"

\* parseValue makes v of the word and consumes it: advance is called once,
\* and parseValue returns true with v unless that call throws.
MapsTo(v) ==
    /\ tokenizer'.calls = tokenizer.calls + 1
    /\ \/ pc' = "thrown" /\ raised'.thrown
       \/ pc' = "ret" /\ retval' /\ value' = v

\* parseValue returns false and the identifier stays the current token.
Refuses == pc' = "ret" /\ ~retval' /\ tokenizer' = tokenizer /\ ~raised'.thrown

\* C24: a word at the start of a text is lexed as an Identifier token with
\* the word as its payload, true, false and null as well; parseValue on an
\* identifier makes Bool true of true, Bool false of false, Null of null and
\* consumes the token, and returns false on every other identifier without
\* consuming it.
C24_ReservedWords ==
    /\ [](\A w \in Words, tl \in WordTails :
              (text = w \o tl /\ tokenizer.calls = 1) =>
                  /\ Token.kind = "Identifier"
                  /\ Token.identifier = w)
    /\ [][OnIdentifier =>
              IF Token.identifier = SpelledTrue THEN MapsTo(ValueBool(TRUE))
              ELSE IF Token.identifier = SpelledFalse THEN MapsTo(ValueBool(FALSE))
              ELSE IF Token.identifier = SpelledNull THEN MapsTo(ValueNull)
              ELSE Refuses]_vars

\* C24 witness: `false 1` has been parsed to Bool false: the word was an
\* Identifier token and the token after it is now the current one.
C24_Witness ==
    /\ pc = "done"
    /\ retval
    /\ text = <<102, 97, 108, 115, 101, 32, 49>>
    /\ output = ValueBool(FALSE)
    /\ Token.kind = "Int"
    /\ tokenizer.calls = 2

\* C24 witness of the other identifiers: the parse of `False` has returned
\* false with the identifier still the current token.
C24_Refused ==
    /\ pc = "done"
    /\ ~retval
    /\ text = <<70, 97, 108, 115, 101>>
    /\ Token.kind = "Identifier"
    /\ Token.identifier = <<70, 97, 108, 115, 101>>
    /\ tokenizer.calls = 1

\* ------------------------------------------------------ no Undefined Value

\* v and every Value nested in it, the elements of an Array and the values
\* of the entries of a Dict, has a type other than Undefined.
RECURSIVE NoUndefined(_)
NoUndefined(v) ==
    /\ v.type # "Undefined"
    /\ v.type = "Array" => \A k \in DOMAIN v.array : NoUndefined(v.array[k])
    /\ v.type = "Dict" => \A k \in DOMAIN v.dict : NoUndefined(v.dict[k].value)

\* C25: whenever parse returns true, the output Value and every Value nested
\* in it has a type other than Undefined.
C25_NoUndefined ==
    (pc = "done" /\ retval) => NoUndefined(output)

\* C25, what the code does: the parse of `[,]` returns true with an Array of
\* two Undefined Values.
C25_Reached ==
    /\ pc = "done"
    /\ retval
    /\ text = <<91, 44, 93>>
    /\ output = ValueArray(<<ValueNew, ValueNew>>)
    /\ ~NoUndefined(output)

\* C25, the output itself: the parse of `,` returns true and the output is
\* Undefined.
C25_ReachedAtTop ==
    /\ pc = "done"
    /\ retval
    /\ text = <<44>>
    /\ output = ValueNew

\* C25, where Undefined comes from: a parseValue or a container that returns
\* true leaves an Undefined Value only when parseValue was entered on a
\* punctuation token other than { and [.
C25_UndefinedOnlyFromPunctuation ==
    [][(pc' = "ret" /\ pc # "ret" /\ retval' /\ value'.type = "Undefined") =>
           /\ pc = "parseValue"
           /\ Token.kind = "Punctuaction"
           /\ Token.punctuaction \notin {"Lbrace", "Lsqb"}]_vars

\* ------------------------------------------------------- copy assignment

\* A copy assignment `a = b` is made: of value to output, or of value to
\* itself.
CopyStep == pc = "constructed" /\ pc' \in {"copyAssigned", "selfAssigned"}

\* a of `a = b` afterwards.
Assignee == IF pc = "selfAssigned" THEN value ELSE output

\* C26: a copy assignment a = b leaves a with the type and the contents b
\* had and leaves b as it was, for every pair of types and also when a and b
\* are the same object.
C26_CopyAssigns ==
    [][CopyStep =>
           /\ Assignee'.type = value.type
           /\ Contents(Assignee') = Contents(value)
           /\ value' = value]_vars

\* C26, what the code may do: after `a = a` an Array that held elements holds
\* none (Construct builds Arrays of up to MaxItems elements; the empty Array
\* is an outcome of the self assignment of every one of them).
C26_Reached ==
    /\ pc = "selfAssigned"
    /\ value = ValueArray(<<>>)
    /\ output = ValueNew
    /\ \E v \in ArrayValues :
           v # value /\ value \in SelfAssigned(v, SelfAssignedValues)

\* C26, the assignments that do what the claim says: between two objects,
\* whatever the two types, and of an Undefined, Null, Bool, Int or Float to
\* itself.
C26_CopyAssignsOtherwise ==
    [][(CopyStep /\ (pc' = "copyAssigned"
                         \/ value.type \notin {"String", "Array", "Dict"})) =>
           /\ Assignee'.type = value.type
           /\ Contents(Assignee') = Contents(value)
           /\ value' = value]_vars

\* C26, witness of the assignment between two objects: a Dict has been copied
\* to output and value still holds it.
C26_Copied ==
    /\ pc = "copyAssigned"
    /\ value.type = "Dict"
    /\ Len(value.dict) = 2
    /\ output = value

====
